---------------------------- MODULE Spec2Model ----------------------------
(***************************************************************************)
(* A model of the HuddleUp FAQ backend (src/backend): the answer resolver  *)
(* ask_faq of main.py with its fallback ladder, SemanticSearchService of   *)
(* semantic_search.py, and the discovery conversation of main.py and       *)
(* openai_service.py.                                                      *)
(*                                                                         *)
(* Texts are sequences of one-character strings, so that str.strip(),      *)
(* str.lower(), len() and the substring test `kw in text` are computed as  *)
(* Python computes them.  Similarity scores and thresholds are integers in *)
(* hundredths (0.6 is 60).                                                 *)
(***************************************************************************)
EXTENDS Integers, Sequences, FiniteSets, TLC

VARIABLES
    cfg,               \* which module-level singletons and clients exist
    pc,                \* position of the request being handled
    request,           \* FAQRequest: question, session_id
    response,          \* ask_faq local: answer text so far
    sources,           \* ask_faq local: list of source tags
    search_method,     \* ask_faq local: strategy label
    semantic_results,  \* ask_faq local: what semantic_search returned
    index_scores,      \* scores of the matches the index returned to that search
    kb_results,        \* ask_faq local: what search_knowledge_base returned
    rungLog,           \* service calls ask_faq made, in order
    collab,            \* external collaborators contacted by the request
    saveLog,           \* arguments of each save_chat_with_embedding call
    chat_messages,     \* rows of the chat_messages table, oldest first
    reply,             \* what the endpoint returned
    sIn,               \* inputs of a stand-alone call: a semantic_search comparison,
                       \* or the enhancement of a candidate answer
    sOut,              \* its results
    dpc,               \* position of the discovery request being handled
    dreq,              \* discovery_conversation: the FAQRequest
    d_session_id,      \* discovery_conversation local: session_id
    d_conversation_context, \* discovery_conversation local
    d_user_profile,      \* discovery_conversation local
    context_read,      \* outcome of the history query of get_conversation_context
    d_knowledge_context, \* generator local: text built from the search results
    discovery_result,  \* discovery_conversation local: the generator's dictionary
    trace,             \* generator locals: path taken, query_count, engagement_level
    dreply,            \* what the discovery endpoint returned
    calls,             \* discovery requests received
    fullSeen           \* session ids for which a call computed level "full"

askVars == <<pc, request, response, sources, search_method, semantic_results,
             index_scores, kb_results, rungLog, collab, saveLog, chat_messages, reply>>
searchVars == <<sIn, sOut>>
discVars == <<dpc, dreq, d_session_id, d_conversation_context, d_user_profile, context_read,
              d_knowledge_context, discovery_result, trace, dreply, calls, fullSeen>>
vars == <<cfg, askVars, searchVars, discVars>>

----------------------------------------------------------------------------
(* Bounds *)

\* Longest list of matches the vector index returns in the model (top_k is 5).
MaxMatches == 2

----------------------------------------------------------------------------
(* Texts *)

\* Python's None, and a raised exception, where a text is expected: neither is
\* a text, whose elements are single characters
None == <<"None">>
Raise == <<"raise">>

UpperChars ==
    <<"A","B","C","D","E","F","G","H","I","J","K","L","M","N","O","P","Q","R","S","T","U","V",
      "W","X","Y","Z">>
LowerChars ==
    <<"a","b","c","d","e","f","g","h","i","j","k","l","m","n","o","p","q","r","s","t","u","v",
      "w","x","y","z">>

\* str.lower() on one character
LowerChar(c) ==
    IF \E i \in 1..26 : UpperChars[i] = c
    THEN LowerChars[CHOOSE i \in 1..26 : UpperChars[i] = c]
    ELSE c

\* str.lower()
Lower(s) == [i \in 1..Len(s) |-> LowerChar(s[i])]

IsSpace(c) == c \in {" ", "\n", "\t"}

\* str.strip()
Strip(s) ==
    IF \A i \in 1..Len(s) : IsSpace(s[i])
    THEN <<>>
    ELSE LET first == CHOOSE i \in 1..Len(s) :
                          /\ ~IsSpace(s[i])
                          /\ \A j \in 1..(i - 1) : IsSpace(s[j])
             last  == CHOOSE i \in 1..Len(s) :
                          /\ ~IsSpace(s[i])
                          /\ \A j \in (i + 1)..Len(s) : IsSpace(s[j])
         IN  SubSeq(s, first, last)

\* Python's `kw in s` on strings
Contains(s, kw) ==
    \E i \in 0..(Len(s) - Len(kw)) :
        \A j \in 1..Len(kw) : s[i + j] = kw[j]

\* str.replace("\n", " ")
ReplaceNewlines(s) == [i \in 1..Len(s) |-> IF s[i] = "\n" THEN " " ELSE s[i]]

\* c repeated n times
Fill(c, n) == [i \in 1..n |-> c]

\* Truthiness of a text value that may be None
Truthy(t) == t # None /\ t # <<>>

----------------------------------------------------------------------------
(* Questions and contents used as inputs *)

QEmpty == <<>>
QBlank == <<" ", " ">>
QPlain ==
    <<"W","h","a","t"," ","i","s"," ","H","u","d","d","l","e","U","p","?">>
QCost ==
    <<"H","o","w"," ","m","u","c","h"," ","d","o","e","s"," ","H","u","d","d","l","e","U","p",
      " ","c","o","s","t","?">>

Questions == {QEmpty, QBlank, QPlain, QCost}

DocId == <<"d","o","c","1">>
\* 10 characters: not longer than the minimum content length
TShort == <<"S","h","o","r","t"," ","t","e","x","t">>
\* 10 characters once stripped
TShortPadded == <<" ">> \o TShort \o <<" ", "\n">>
\* 11 characters
TUsable == <<"U","s","a","b","l","e"," ","t","e","x","t">>
TText ==
    <<"T","e","x","t"," ","f","i","e","l","d"," ","c","o","n","t","e","n","t">>
TAnswer ==
    <<"A","n","s","w","e","r"," ","f","i","e","l","d"," ","c","o","n","t","e","n","t">>
\* 54 characters, with capitals
TLongContent ==
    <<"H","u","d","d","l","e","U","p"," ","T","e","a","m","s"," ","s","h","a","r","e"," ","w",
      "h","a","t"," ","t","h","e","y"," ","l","e","a","r","n"," ","i","n"," ","o","n","e"," ",
      "w","o","r","k","s","p","a","c","e",".">>
TChunk ==
    <<"C","h","u","n","k"," ","c","o","n","t","e","n","t"," ","f","r","o","m"," ","s","t","o",
      "r","e">>

----------------------------------------------------------------------------
(* SemanticSearchService.semantic_search *)

\* pricing_keywords of semantic_search
PricingKeywords ==
    { <<"p","r","i","c","e">>, <<"p","r","i","c","i","n","g">>, <<"c","o","s","t">>,
      <<"p","l","a","n">>, <<"p","l","a","n","s">>, <<"$">>, <<"f","e","e">>,
      <<"s","u","b","s","c","r","i","p","t","i","o","n">>, <<"p","a","i","d">> }

IsPricingQuery(query) == \E kw \in PricingKeywords : Contains(Lower(query), kw)

Max(a, b) == IF a >= b THEN a ELSE b
Min(a, b) == IF a <= b THEN a ELSE b

\* The floor of the relaxed threshold and the relaxation, in hundredths
PricingFloor == 10
PricingRelaxation == 20

AdjustedThresholdNoFloor(query, similarity_threshold) ==
    IF IsPricingQuery(query)
    THEN similarity_threshold - PricingRelaxation
    ELSE similarity_threshold

AdjustedThresholdIgnoresPricing(query, similarity_threshold) == similarity_threshold

\* adjusted_threshold of semantic_search
AdjustedThreshold(query, similarity_threshold) ==
    IF IsPricingQuery(query)
    THEN Max(PricingFloor, similarity_threshold - PricingRelaxation)
    ELSE similarity_threshold

\* The fallback contents of semantic_search (the pricing texts are cut to their
\* first sentence)
PricingFallbackDoc ==
    <<"H","u","d","d","l","e","U","p"," ","o","f","f","e","r","s"," ","s","e","v","e","r","a",
      "l"," ","p","r","i","c","i","n","g"," ","p","l","a","n","s"," ","t","o"," ","a","c","c",
      "o","m","m","o","d","a","t","e"," ","d","i","f","f","e","r","e","n","t"," ","n","e","e",
      "d","s",":">>
PricingFallbackNoDoc ==
    <<"H","u","d","d","l","e","U","p"," ","o","f","f","e","r","s"," ","f","l","e","x","i","b",
      "l","e"," ","p","r","i","c","i","n","g"," ","s","t","a","r","t","i","n","g"," ","a","r",
      "o","u","n","d"," ","$","5"," ","p","e","r"," ","u","s","e","r"," ","p","e","r"," ","m",
      "o","n","t","h",":">>
GenericDocPrefix ==
    <<"T","h","i","s"," ","i","s"," ","r","e","l","e","v","a","n","t"," ","i","n","f","o","r",
      "m","a","t","i","o","n"," ","f","r","o","m"," ","o","u","r"," ","k","n","o","w","l","e",
      "d","g","e"," ","b","a","s","e"," ","(","D","o","c","u","m","e","n","t",":"," ">>
GenericDocMid ==
    <<","," ","S","e","c","t","i","o","n",":"," ","0">>
GenericDocSuffix ==
    <<")"," ","t","h","a","t"," ","m","a","t","c","h","e","s"," ","y","o","u","r"," ","q","u",
      "e","r","y"," ","a","b","o","u","t"," ","'">>
GenericPrefix ==
    <<"T","h","i","s"," ","i","s"," ","r","e","l","e","v","a","n","t"," ","i","n","f","o","r",
      "m","a","t","i","o","n"," ","f","r","o","m"," ","o","u","r"," ","H","u","d","d","l","e",
      "U","p"," ","k","n","o","w","l","e","d","g","e"," ","b","a","s","e"," ","t","h","a","t",
      " ","m","a","t","c","h","e","s"," ","y","o","u","r"," ","q","u","e","r","y"," ","a","b",
      "o","u","t"," ","'">>
GenericSuffix == <<"'",".">>
FinalPlaceholder ==
    <<"R","e","l","e","v","a","n","t"," ","i","n","f","o","r","m","a","t","i","o","n"," ","f",
      "r","o","m"," ","H","u","d","d","l","e","U","p"," ","k","n","o","w","l","e","d","g","e",
      " ","b","a","s","e",".">>

\* The content given to a match whose content could not be fetched
FallbackContent(query, doc_id) ==
    IF IsPricingQuery(query)
    THEN IF doc_id # <<>> THEN PricingFallbackDoc ELSE PricingFallbackNoDoc
    ELSE IF doc_id # <<>>
         THEN GenericDocPrefix \o doc_id \o GenericDocMid \o GenericDocSuffix
                  \o query \o GenericSuffix
         ELSE GenericPrefix \o query \o GenericSuffix

\* _fetch_content_from_supabase: None without a client, without a row, or on an
\* error; otherwise the chunk's content.  m.chunk is the row the store holds
\* for the match's id.
FetchContentFromSupabase(c, m) ==
    IF ~c.supabase THEN None
    ELSE IF ~m.chunk.found THEN None
    ELSE m.chunk.content

\* The content of the result without the closing placeholder of lines 255-257
EnrichedContentNoPlaceholder(c, query, m) ==
    LET content == m.metadata.content
        text    == m.metadata.text
        fetched == FetchContentFromSupabase(c, m)
    IN  IF Truthy(content) \/ Truthy(text) THEN content
        ELSE IF fetched # None THEN fetched
        ELSE FallbackContent(query, m.metadata.document_id)

\* Lines 213-257: the content of the result built from match m
EnrichedContent(c, query, m) ==
    LET content == m.metadata.content
        text    == m.metadata.text
        fetched == FetchContentFromSupabase(c, m)
        filled  == IF Truthy(content) \/ Truthy(text) THEN content
                   ELSE IF fetched # None THEN fetched
                   ELSE FallbackContent(query, m.metadata.document_id)
    IN  IF ~Truthy(filled) /\ ~Truthy(text) THEN FinalPlaceholder ELSE filled

\* The result dictionary built from match m
SearchResult(c, query, m) ==
    [ id         |-> m.id,
      similarity |-> m.score,
      metadata   |-> m.metadata,
      content    |-> EnrichedContent(c, query, m),
      text       |-> m.metadata.text ]

RECURSIVE FilterMatches(_, _, _, _)
FilterMatches(c, query, threshold, matches) ==
    IF matches = <<>> THEN <<>>
    ELSE LET m == Head(matches)
             rest == FilterMatches(c, query, threshold, Tail(matches))
         IN  IF m.score >= threshold
             THEN <<SearchResult(c, query, m)>> \o rest
             ELSE rest

\* Whether get_embedding calls the embeddings API for this text
EmbeddingCallsApi(text) == Strip(ReplaceNewlines(text)) # <<>>

\* semantic_search.  emb is the outcome of the embeddings call ("ok" or "raise"),
\* pine the outcome of the index query (it raised, or its list of matches).
\* The dictionaries returned on failure carry no "success" key.
SemanticSearch(c, query, similarity_threshold, emb, pine) ==
    LET failed == [success |-> FALSE, results |-> <<>>, total_matches |-> 0]
    IN  IF ~c.pinecone THEN failed
        ELSE IF ~c.emb THEN failed
        ELSE IF EmbeddingCallsApi(query) /\ emb = "raise" THEN failed
        ELSE IF pine.raised THEN failed
        ELSE LET adjusted == AdjustedThreshold(query, similarity_threshold)
                 filtered_results == FilterMatches(c, query, adjusted, pine.matches)
             IN  [success |-> TRUE,
                  results |-> filtered_results,
                  total_matches |-> Len(filtered_results)]

\* The collaborators semantic_search contacts
SearchCollaborators(c, query, similarity_threshold, emb, pine) ==
    IF ~c.pinecone \/ ~c.emb THEN {}
    ELSE (IF EmbeddingCallsApi(query) THEN {"embeddings"} ELSE {})
         \cup (IF EmbeddingCallsApi(query) /\ emb = "raise" THEN {}
               ELSE {"vector_index"})
         \cup (IF (EmbeddingCallsApi(query) /\ emb = "raise") \/ pine.raised
                  \/ ~c.supabase
               THEN {}
               ELSE LET adjusted == AdjustedThreshold(query, similarity_threshold)
                    IN  IF \E i \in 1..Len(pine.matches) :
                               /\ pine.matches[i].score >= adjusted
                               /\ ~Truthy(pine.matches[i].metadata.content)
                               /\ ~Truthy(pine.matches[i].metadata.text)
                        THEN {"store"} ELSE {})

----------------------------------------------------------------------------
(* What the vector index may hold *)

Scores == {15, 45, 70}

Metadatas ==
    { [content |-> TUsable,      text |-> <<>>,  answer |-> <<>>,    document_id |-> DocId],
      [content |-> TShortPadded, text |-> <<>>,  answer |-> TAnswer, document_id |-> <<>>],
      [content |-> TShort,       text |-> <<>>,  answer |-> <<>>,    document_id |-> <<>>],
      [content |-> <<>>,         text |-> TText, answer |-> <<>>,    document_id |-> <<>>],
      [content |-> <<>>,         text |-> <<>>,  answer |-> <<>>,    document_id |-> DocId],
      [content |-> <<>>,         text |-> <<>>,  answer |-> TAnswer, document_id |-> <<>>] }

Chunks ==
    { [found |-> FALSE, content |-> <<>>],
      [found |-> TRUE,  content |-> <<>>],
      [found |-> TRUE,  content |-> TChunk] }

\* A match of the index together with the document_chunks row of its id.  Only
\* matches without content and text are ever looked up in the store.
Matches ==
    { m \in [id : {"v1"}, score : Scores, metadata : Metadatas, chunk : Chunks] :
        /\ (Truthy(m.metadata.content) \/ Truthy(m.metadata.text))
               => m.chunk = [found |-> FALSE, content |-> <<>>]
        /\ Truthy(m.metadata.answer) => m.chunk.content = <<>>
        /\ (~Truthy(m.metadata.content) /\ ~Truthy(m.metadata.text)
                /\ ~Truthy(m.metadata.answer))
               => (m.chunk.found => m.chunk.content # <<>>) }

\* The matches that follow the best one
LowerMatches ==
    { [id |-> "v2", score |-> 70,
       metadata |-> [content |-> TUsable, text |-> <<>>, answer |-> <<>>,
                     document_id |-> <<>>],
       chunk |-> [found |-> FALSE, content |-> <<>>]],
      [id |-> "v3", score |-> 45,
       metadata |-> [content |-> <<>>, text |-> <<>>, answer |-> <<>>,
                     document_id |-> <<>>],
       chunk |-> [found |-> TRUE, content |-> <<>>]],
      [id |-> "v4", score |-> 15,
       metadata |-> [content |-> <<>>, text |-> <<>>, answer |-> <<>>,
                     document_id |-> DocId],
       chunk |-> [found |-> FALSE, content |-> <<>>]] }

BestFirst(l) == \A i \in 1..(Len(l) - 1) : l[i].score >= l[i + 1].score

\* Four matches without readable content, three of them above 0.4: more than
\* the three whose similarity the semantic_guided tag averages
FourMatches ==
    [ i \in 1..4 |->
        [id |-> <<"v1", "v2", "v3", "v4">>[i],
         score |-> <<70, 45, 45, 45>>[i],
         metadata |-> [content |-> TShort, text |-> <<>>, answer |-> <<>>,
                       document_id |-> <<>>],
         chunk |-> [found |-> FALSE, content |-> <<>>]] ]

\* The index returns its matches best first
MatchLists ==
    {<<>>, FourMatches} \cup
    UNION { { l \in [1..n -> Matches \cup LowerMatches] :
                /\ l[1] \in Matches
                /\ \A i \in 2..n : l[i] \in LowerMatches
                /\ BestFirst(l) } : n \in 1..MaxMatches }

NoResults == [success |-> FALSE, results |-> <<>>, total_matches |-> 0]

\* Outcomes of the index query: it raises, or returns one of these lists
PineconeOutcomes(lists) ==
    {[raised |-> TRUE, matches |-> <<>>]}
        \cup {[raised |-> FALSE, matches |-> l] : l \in lists}

NoSearchInput == [threshold |-> 0, with |-> <<>>, without |-> <<>>, matches |-> <<>>]
NoSearchOutput ==
    [with    |-> [result |-> NoResults, adjusted_threshold |-> -1],
     without |-> [result |-> NoResults, adjusted_threshold |-> -1],
     ran     |-> {}]

----------------------------------------------------------------------------
(* Configuration: which singletons the imports of main.py produced *)

\* sem:    "ok"            semantic_search_service exists in main.py
\*         "init_failed"   SemanticSearchService() raised: the name is None in
\*                         openai_service.py and the import in main.py fails
\*         "import_failed" the module could not be imported at all (then
\*                         openai_service, which imports it, is missing too)
\* openai: "ok" | "no_client" (OpenAIService without client) | "none"
\* db:     "ok" | "no_client" (DatabaseService without client) | "none"
\* pinecone, emb, supabase: pinecone_index, embedding_service.available and
\*         supabase of the SemanticSearchService instance
Configs ==
    { c \in [sem : {"ok", "init_failed", "import_failed"},
             openai : {"ok", "no_client", "none"},
             db : {"ok", "no_client", "none"},
             pinecone : BOOLEAN, emb : BOOLEAN, supabase : BOOLEAN] :
        /\ c.sem = "import_failed" => c.openai = "none"
        /\ c.sem # "ok" => (~c.pinecone /\ ~c.emb /\ ~c.supabase)
        \* one OPENAI_API_KEY feeds the completion client and the embeddings
        /\ (c.sem = "ok" /\ c.openai = "ok") => c.emb }

\* SEMANTIC_SEARCH_AVAILABLE and semantic_search_service
SemanticAvailable(c) == c.sem = "ok"
\* OPENAI_AVAILABLE and openai_service
OpenAIAvailable(c) == c.openai # "none"
\* DATABASE_AVAILABLE and db_service
DatabaseAvailable(c) == c.db # "none"

----------------------------------------------------------------------------
(* ask_faq *)

TFaqQuestion ==
    <<"W","h","a","t"," ","i","s"," ","H","u","d","d","l","e","U","p","?">>
TFaqAnswer ==
    <<"H","u","d","d","l","e","U","p"," ","i","s"," ","a"," ","c","o","m","m","u","n","i","t",
      "y"," ","p","l","a","t","f","o","r","m",".">>
TDocTitle == <<"G","u","i","d","e">>
TDocContent ==
    <<"D","o","c","u","m","e","n","t"," ","c","o","n","t","e","n","t"," ","a","b","o","u","t",
      " ","H","u","d","d","l","e","U","p",".">>
TGenerated ==
    <<"H","u","d","d","l","e","U","p"," ","h","e","l","p","s"," ","t","e","a","m","s"," ","l",
      "e","a","r","n"," ","t","o","g","e","t","h","e","r",".">>
ApologyNoResponse ==
    <<"I"," ","a","p","o","l","o","g","i","z","e",","," ","b","u","t"," ","I"," ","c","o","u",
      "l","d","n","'","t"," ","f","i","n","d"," ","r","e","l","e","v","a","n","t"," ","i","n",
      "f","o","r","m","a","t","i","o","n"," ","i","n"," ","o","u","r"," ","k","n","o","w","l",
      "e","d","g","e"," ","b","a","s","e"," ","a","n","d"," ","c","o","u","l","d","n","'","t",
      " ","g","e","n","e","r","a","t","e"," ","a"," ","s","u","i","t","a","b","l","e"," ","r",
      "e","s","p","o","n","s","e","."," ","C","o","u","l","d"," ","y","o","u"," ","p","l","e",
      "a","s","e"," ","r","e","p","h","r","a","s","e"," ","y","o","u","r"," ","q","u","e","s",
      "t","i","o","n"," ","o","r"," ","c","o","n","t","a","c","t"," ","o","u","r"," ","s","u",
      "p","p","o","r","t"," ","t","e","a","m"," ","f","o","r"," ","a","s","s","i","s","t","a",
      "n","c","e","?">>
ApologyServiceError ==
    <<"I"," ","a","p","o","l","o","g","i","z","e",","," ","b","u","t"," ","I","'","m"," ","c",
      "u","r","r","e","n","t","l","y"," ","u","n","a","b","l","e"," ","t","o"," ","p","r","o",
      "c","e","s","s"," ","y","o","u","r"," ","q","u","e","s","t","i","o","n"," ","d","u","e",
      " ","t","o"," ","a"," ","t","e","c","h","n","i","c","a","l"," ","i","s","s","u","e",".",
      " ","P","l","e","a","s","e"," ","t","r","y"," ","a","g","a","i","n"," ","l","a","t","e",
      "r"," ","o","r"," ","c","o","n","t","a","c","t"," ","o","u","r"," ","s","u","p","p","o",
      "r","t"," ","t","e","a","m",".">>
ApologyNoServices ==
    <<"I"," ","a","p","o","l","o","g","i","z","e",","," ","b","u","t"," ","I"," ","c","o","u",
      "l","d","n","'","t"," ","f","i","n","d"," ","r","e","l","e","v","a","n","t"," ","i","n",
      "f","o","r","m","a","t","i","o","n"," ","i","n"," ","o","u","r"," ","k","n","o","w","l",
      "e","d","g","e"," ","b","a","s","e","."," ","P","l","e","a","s","e"," ","t","r","y"," ",
      "r","e","p","h","r","a","s","i","n","g"," ","y","o","u","r"," ","q","u","e","s","t","i",
      "o","n"," ","o","r"," ","c","o","n","t","a","c","t"," ","o","u","r"," ","s","u","p","p",
      "o","r","t"," ","t","e","a","m"," ","f","o","r"," ","a","s","s","i","s","t","a","n","c",
      "e",".">>

\* similarity_threshold ask_faq passes to semantic_search, in hundredths
AskThreshold == 60
\* similarity_threshold generate_direct_response passes, in hundredths
DirectThreshold == 30
\* Minimum length a content field must exceed to be used as the answer
MinContentLength == 10
\* Length below which process_question discards the enhanced text
MinEnhancedLength == 50

\* What the completion client may do on one call: raise, or return this
\* message content
Completions(context) ==
    { Raise, <<>>, <<" ">> \o TGenerated \o <<"\n">>,
      Fill("e", MinEnhancedLength - 1), Fill("e", MinEnhancedLength),
      context, Lower(context) }

\* The same for the call of generate_direct_response
DirectCompletions == { Raise, <<>>, <<" ", "\n">>, <<" ">> \o TGenerated \o <<"\n">> }

\* content_sources of ask_faq: the fields of the best match, in priority order.
\* A result has no "answer" key of its own.
ContentSources(best_match) ==
    << best_match.content, best_match.text, None,
       best_match.metadata.content, best_match.metadata.text,
       best_match.metadata.answer >>

\* A test that accepts a trimmed length of 10
UsableFromTen(content) == Truthy(content) /\ Len(Strip(content)) >= MinContentLength

\* `content and len(str(content).strip()) > 10`
Usable(content) == Truthy(content) /\ Len(Strip(content)) > MinContentLength

\* response_content of ask_faq: the first usable field, stripped, or None
ResponseContent(best_match) ==
    LET cs == ContentSources(best_match)
    IN  IF \E i \in 1..Len(cs) : Usable(cs[i])
        THEN Strip(cs[CHOOSE i \in 1..Len(cs) :
                          /\ Usable(cs[i])
                          /\ \A j \in 1..(i - 1) : ~Usable(cs[j])])
        ELSE None

\* OpenAIService.process_question; out is the completion outcome
\* process_question without the client check of lines 329-330
ProcessQuestionNoLengthCheck(c, context_answer, out) ==
    IF c.openai # "ok" THEN context_answer
    ELSE IF out = Raise THEN context_answer
    ELSE LET enhanced_response == Strip(out)
         IN  IF Lower(enhanced_response) = Lower(context_answer)
             THEN context_answer
             ELSE enhanced_response

\* process_question without the client check of lines 329-330
ProcessQuestionNoClientCheck(c, context_answer, out) ==
    IF out = Raise THEN context_answer
    ELSE LET enhanced_response == Strip(out)
         IN  IF Len(enhanced_response) < MinEnhancedLength
                \/ Lower(enhanced_response) = Lower(context_answer)
             THEN context_answer
             ELSE enhanced_response

ProcessQuestion(c, context_answer, out) ==
    IF c.openai # "ok" THEN context_answer
    ELSE IF out = Raise THEN context_answer
    ELSE LET enhanced_response == Strip(out)
         IN  IF Len(enhanced_response) < MinEnhancedLength
                \/ Lower(enhanced_response) = Lower(context_answer)
             THEN context_answer
             ELSE enhanced_response

\* Lines 157-177: the answer and the label of the semantic rung for the
\* candidate response_content, out being what the completion client returns
\* when process_question calls it
EnhancedAnswer(c, response_content, out) ==
    IF OpenAIAvailable(c)
    THEN LET ai_enhanced == ProcessQuestion(c, response_content, out)
         IN  IF Truthy(ai_enhanced) /\ ai_enhanced # response_content
             THEN [response |-> ai_enhanced,
                   search_method |-> "semantic_content_ai_enhanced"]
             ELSE [response |-> response_content, search_method |-> "semantic_content"]
    ELSE [response |-> response_content, search_method |-> "semantic_content"]

\* generate_direct_response answering without the client check of lines 109-110
GenerateDirectResponseNoClientCheck(c, out) ==
    IF c.sem # "ok" THEN Raise
    ELSE IF out = Raise THEN Raise
    ELSE Strip(out)

GenerateDirectResponseNoStrip(c, out) ==
    IF c.openai # "ok" THEN Raise
    ELSE IF c.sem # "ok" THEN Raise
    ELSE out

\* OpenAIService.generate_direct_response: Raise or the stripped completion.
\* Without a client it raises; with semantic_search_service None (init_failed)
\* the context search raises.
GenerateDirectResponse(c, out) ==
    IF c.openai # "ok" THEN Raise
    ELSE IF c.sem # "ok" THEN Raise
    ELSE IF out = Raise THEN Raise
    ELSE Strip(out)

\* The collaborators generate_direct_response contacts: those of its context
\* search (threshold 0.3), then the completion client.  emb and pine are the
\* outcomes of the embeddings call and of the index query ("ok" or "raise");
\* fetch says whether a match kept by this search lacks content and text.
DirectCollaborators(c, question, emb, pine, fetch) ==
    IF c.openai # "ok" \/ c.sem # "ok" THEN {}
    ELSE (IF ~c.pinecone \/ ~c.emb THEN {}
          ELSE (IF EmbeddingCallsApi(question) THEN {"embeddings"} ELSE {})
               \cup (IF EmbeddingCallsApi(question) /\ emb = "raise" THEN {}
                     ELSE {"vector_index"})
               \cup (IF (EmbeddingCallsApi(question) /\ emb = "raise")
                        \/ pine = "raise" \/ ~c.supabase \/ ~fetch
                     THEN {} ELSE {"store"}))
         \cup {"completion"}

Sum3(results) ==
    IF Len(results) = 0 THEN 0
    ELSE IF Len(results) = 1 THEN results[1].similarity
    ELSE IF Len(results) = 2 THEN results[1].similarity + results[2].similarity
    ELSE results[1].similarity + results[2].similarity + results[3].similarity

RECURSIVE SumAll(_)
SumAll(results) ==
    IF results = <<>> THEN 0 ELSE Head(results).similarity + SumAll(Tail(results))

\* The mean over every match returned
AvgSimilarityAll(results) == [sum |-> SumAll(results), over |-> Len(results)]

\* avg_similarity of the semantic_guided tag, as the pair (sum, divisor) of the
\* division the code performs
AvgSimilarity(results) == [sum |-> Sum3(results), over |-> Min(3, Len(results))]

AskStart(q, sid) ==
    /\ pc = "idle"
    /\ pc' = "semantic"
    /\ request' = [question |-> q, session_id |-> sid]
    /\ response' = <<>>
    /\ sources' = <<>>
    /\ search_method' = "fallback"
    /\ UNCHANGED <<cfg, semantic_results, index_scores, kb_results, rungLog,
                   collab, saveLog, chat_messages, reply, searchVars, discVars>>

\* Lines 123-133: semantic_search is called when the service exists
SemanticSearchCall ==
    /\ pc = "semantic"
    /\ IF ~SemanticAvailable(cfg)
       THEN /\ pc' = "keyword"
            /\ UNCHANGED <<semantic_results, index_scores, rungLog, collab>>
       ELSE \E emb \in {"ok", "raise"}, pine \in PineconeOutcomes(MatchLists) :
            /\ pc' = "semantic_use"
            /\ semantic_results' =
                   SemanticSearch(cfg, request.question, AskThreshold, emb, pine)
            /\ index_scores' =
                   IF "vector_index" \in SearchCollaborators(cfg, request.question,
                                             AskThreshold, emb, pine)
                   THEN [i \in 1..Len(pine.matches) |-> pine.matches[i].score]
                   ELSE <<>>
            /\ rungLog' = Append(rungLog, "semantic_search")
            /\ collab' = collab \cup
                   SearchCollaborators(cfg, request.question, AskThreshold, emb, pine)
    /\ UNCHANGED <<cfg, request, response, sources, search_method, kb_results,
                   saveLog, chat_messages, reply, searchVars, discVars>>

\* Lines 133-207: the answer taken from the semantic results
SemanticUse ==
    /\ pc = "semantic_use"
    /\ pc' = "keyword"
    /\ IF semantic_results.success /\ semantic_results.results # <<>>
       THEN LET best_match == semantic_results.results[1]
                response_content == ResponseContent(best_match)
            IN  IF response_content # None
                THEN \* usable content, enhanced when possible
                     /\ sources' = Append(sources,
                            [type |-> "knowledge_base_semantic",
                             similarity |-> best_match.similarity,
                             id |-> best_match.id])
                     /\ IF OpenAIAvailable(cfg)
                        THEN \E out \in Completions(response_content) :
                             LET enhanced ==
                                     EnhancedAnswer(cfg, response_content, out)
                             IN  /\ response' = enhanced.response
                                 /\ search_method' = enhanced.search_method
                                 /\ rungLog' = Append(rungLog, "process_question")
                                 /\ collab' = collab \cup
                                        (IF cfg.openai = "ok"
                                         THEN {"completion"} ELSE {})
                        ELSE /\ response' = response_content
                             /\ search_method' = "semantic_content"
                             /\ UNCHANGED <<rungLog, collab>>
                ELSE \* matches without readable content
                     IF OpenAIAvailable(cfg)
                     THEN \E out \in DirectCompletions, emb \in {"ok", "raise"},
                             pine \in {"ok", "raise"}, fetch \in BOOLEAN :
                          LET ai_response == GenerateDirectResponse(cfg, out)
                          IN  /\ IF ai_response # Raise /\ Truthy(ai_response)
                                 THEN /\ response' = ai_response
                                      /\ search_method' = "semantic_guided_ai"
                                      /\ sources' = Append(sources,
                                             [type |-> "semantic_guided",
                                              matches_found |->
                                                  Len(semantic_results.results),
                                              avg_similarity |->
                                                  AvgSimilarity(
                                                      semantic_results.results)])
                                 ELSE UNCHANGED <<response, search_method, sources>>
                              /\ rungLog' = Append(rungLog, "guided_generation")
                              /\ collab' = collab \cup
                                     DirectCollaborators(cfg, request.question,
                                                         emb, pine, fetch)
                     ELSE UNCHANGED <<response, search_method, sources, rungLog,
                                      collab>>
       ELSE UNCHANGED <<response, search_method, sources, rungLog, collab>>
    /\ UNCHANGED <<cfg, request, semantic_results, index_scores, kb_results,
                   saveLog, chat_messages, reply, searchVars, discVars>>

\* What the knowledge-base tables may return for a query
FaqEntries ==
    { <<>>,
      <<[question |-> TFaqQuestion, answer |-> TFaqAnswer, category |-> "general"]>>,
      <<[question |-> TFaqQuestion, answer |-> <<>>, category |-> "general"]>>,
      <<[question |-> TFaqQuestion, answer |-> None, category |-> "general"]>> }
Documents ==
    { <<>>,
      <<[title |-> TDocTitle, content |-> TDocContent]>>,
      <<[title |-> TDocTitle, content |-> <<>>]>> }

NoKbResults == [faq_entries |-> <<>>, documents |-> <<>>]

\* DatabaseService.search_knowledge_base: empty without a client; each table
\* search returns [] when it fails
SearchKnowledgeBase(c, faqs, docs) ==
    IF c.db # "ok" THEN NoKbResults
    ELSE [faq_entries |-> faqs, documents |-> docs]

KeywordGuardAlways(c, resp) == DatabaseAvailable(c)

\* `not response and DATABASE_AVAILABLE and db_service`
KeywordGuard(c, resp) == ~Truthy(resp) /\ DatabaseAvailable(c)

\* Lines 209-234: the keyword rung
KeywordRung ==
    /\ pc = "keyword"
    /\ pc' = "generate"
    /\ IF KeywordGuard(cfg, response)
       THEN \E faqs \in FaqEntries, docs \in Documents :
            LET kb == SearchKnowledgeBase(cfg, faqs, docs)
            IN  /\ kb_results' = kb
                /\ rungLog' = Append(rungLog, "search_knowledge_base")
                /\ collab' = collab \cup (IF cfg.db = "ok" THEN {"store"} ELSE {})
                /\ IF kb.faq_entries # <<>>
                   THEN /\ response' = kb.faq_entries[1].answer
                        /\ sources' = Append(sources,
                               [type |-> "faq_traditional",
                                question |-> kb.faq_entries[1].question,
                                category |-> kb.faq_entries[1].category])
                        /\ search_method' = "traditional_faq"
                   ELSE IF kb.documents # <<>>
                   THEN /\ response' = kb.documents[1].content
                        /\ sources' = Append(sources,
                               [type |-> "document_traditional",
                                title |-> kb.documents[1].title])
                        /\ search_method' = "traditional_document"
                   ELSE UNCHANGED <<response, sources, search_method>>
       ELSE UNCHANGED <<kb_results, rungLog, collab, response, sources, search_method>>
    /\ UNCHANGED <<cfg, request, semantic_results, index_scores, saveLog,
                   chat_messages, reply, searchVars, discVars>>

\* `response is None`
GenerationGuardNone(resp) == resp = None

\* `not response`
GenerationGuard(resp) == ~Truthy(resp)

\* Lines 236-258: the generation rung
GenerationRung ==
    /\ pc = "generate"
    /\ pc' = "save"
    /\ IF GenerationGuard(response)
       THEN IF OpenAIAvailable(cfg)
            THEN \E out \in DirectCompletions, emb \in {"ok", "raise"},
                    pine \in {"ok", "raise"}, fetch \in BOOLEAN :
                 LET ai_response == GenerateDirectResponse(cfg, out)
                 IN  /\ rungLog' = Append(rungLog, "direct_generation")
                     /\ collab' = collab \cup
                            DirectCollaborators(cfg, request.question, emb, pine, fetch)
                     /\ IF ai_response = Raise
                        THEN /\ response' = ApologyServiceError
                             /\ search_method' = "service_error"
                             /\ UNCHANGED sources
                        ELSE IF Truthy(ai_response)
                        THEN /\ response' = ai_response
                             /\ search_method' = "openai_direct"
                             /\ sources' = Append(sources,
                                    [type |-> "openai_generated",
                                     method |-> "direct_generation"])
                        ELSE /\ response' = ApologyNoResponse
                             /\ search_method' = "no_response_available"
                             /\ UNCHANGED sources
            ELSE /\ response' = ApologyNoServices
                 /\ search_method' = "no_services_available"
                 /\ UNCHANGED <<sources, rungLog, collab>>
       ELSE UNCHANGED <<response, search_method, sources, rungLog, collab>>
    /\ UNCHANGED <<cfg, request, semantic_results, index_scores, kb_results,
                   saveLog, chat_messages, reply, searchVars, discVars>>

\* generate_session_id: a uuid4, different from every caller's id and from the
\* id of every stored row
GenerateSessionId(rows) == [kind |-> "uuid", n |-> Len(rows) + 1]

\* The session id ask_faq saves the interaction under
AskSessionId(req, rows) == GenerateSessionId(rows)

\* SemanticSearchService.save_chat_with_embedding: the table after the call.
\* emb is the outcome of embedding the message, ins of the insert: "ok",
\* "no_table" or "raise".
SaveChatWithEmbedding(c, rows, session_id, user_message, bot_response, emb, ins) ==
    IF ~c.supabase THEN rows
    ELSE IF c.emb /\ EmbeddingCallsApi(user_message) /\ emb = "raise" THEN rows
    ELSE IF ins # "ok" THEN rows
    ELSE Append(rows, [session_id |-> session_id, user_message |-> user_message,
                       bot_response |-> bot_response])

\* The collaborators save_chat_with_embedding contacts
SaveCollaborators(c, user_message, emb) ==
    IF ~c.supabase THEN {}
    ELSE (IF c.emb /\ EmbeddingCallsApi(user_message) THEN {"embeddings"} ELSE {})
         \cup (IF c.emb /\ EmbeddingCallsApi(user_message) /\ emb = "raise"
               THEN {} ELSE {"store"})

SaveGuardOnlyWithSources(c, srcs) == SemanticAvailable(c) /\ srcs # <<>>

\* `SEMANTIC_SEARCH_AVAILABLE and semantic_search_service` before the save
SaveGuard(c, srcs) == SemanticAvailable(c)

\* A save whose failure reaches the endpoint's outer except clause (lines
\* 286-292) instead of being absorbed at lines 276-277
SaveRungAborting ==
    /\ pc = "save"
    /\ IF SaveGuard(cfg, sources)
       THEN \E emb \in {"ok", "raise"}, ins \in {"ok", "no_table", "raise"} :
            LET session_id == AskSessionId(request, chat_messages)
                failed == cfg.supabase
                          /\ SaveChatWithEmbedding(cfg, chat_messages, session_id,
                                 request.question, response, emb, ins) = chat_messages
            IN  /\ saveLog' = Append(saveLog,
                       [session_id |-> session_id,
                        user_message |-> request.question,
                        bot_response |-> response,
                        sources |-> [sources |-> sources, method |-> search_method]])
                /\ rungLog' = Append(rungLog, "save_chat_with_embedding")
                /\ chat_messages' = SaveChatWithEmbedding(cfg, chat_messages, session_id,
                                        request.question, response, emb, ins)
                /\ collab' = collab \cup SaveCollaborators(cfg, request.question, emb)
                /\ pc' = IF failed THEN "done" ELSE "return"
                /\ reply' = IF failed
                            THEN [answer |-> ApologyServiceError, success |-> FALSE,
                                  sources |-> <<>>, search_method |-> "error"]
                            ELSE reply
       ELSE /\ pc' = "return"
            /\ UNCHANGED <<saveLog, rungLog, chat_messages, collab, reply>>
    /\ UNCHANGED <<cfg, request, response, sources, search_method, semantic_results, index_scores,
                   kb_results, searchVars, discVars>>

\* Lines 266-277: the interaction is saved
SaveRung ==
    /\ pc = "save"
    /\ pc' = "return"
    /\ IF SaveGuard(cfg, sources)
       THEN \E emb \in {"ok", "raise"}, ins \in {"ok", "no_table", "raise"} :
            LET session_id == AskSessionId(request, chat_messages)
            IN  /\ saveLog' = Append(saveLog,
                       [session_id |-> session_id,
                        user_message |-> request.question,
                        bot_response |-> response,
                        sources |-> [sources |-> sources, method |-> search_method]])
                /\ rungLog' = Append(rungLog, "save_chat_with_embedding")
                /\ chat_messages' = SaveChatWithEmbedding(cfg, chat_messages, session_id,
                                        request.question, response, emb, ins)
                /\ collab' = collab \cup SaveCollaborators(cfg, request.question, emb)
       ELSE UNCHANGED <<saveLog, rungLog, chat_messages, collab>>
    /\ UNCHANGED <<cfg, request, response, sources, search_method, semantic_results, index_scores,
                   kb_results, reply, searchVars, discVars>>

\* Lines 279-284: the FAQResponse returned
AskReturn ==
    /\ pc = "return"
    /\ pc' = "done"
    /\ reply' = [answer |-> response, success |-> TRUE, sources |-> sources,
                 search_method |-> search_method]
    /\ UNCHANGED <<cfg, request, response, sources, search_method, semantic_results, index_scores,
                   kb_results, rungLog, collab, saveLog, chat_messages,
                   searchVars, discVars>>

\* session_id of a request: absent, or the caller's
NoSession == [kind |-> "none", n |-> 0]
CallerSession == [kind |-> "caller", n |-> 1]
SessionIds == {NoSession, CallerSession}

\* The requests sent to ask_faq, which does not read session_id
AskRequests ==
    [question : Questions, session_id : {CallerSession}]
        \cup {[question |-> QPlain, session_id |-> NoSession]}

NoRequest == [question |-> <<>>, session_id |-> NoSession]
NoReply == [answer |-> None, success |-> FALSE, sources |-> <<>>,
            search_method |-> "none"]

AskIdle ==
    /\ pc = "idle"
    /\ request = NoRequest
    /\ response = <<>>
    /\ sources = <<>>
    /\ search_method = "fallback"
    /\ semantic_results = NoResults
    /\ index_scores = <<>>
    /\ kb_results = NoKbResults
    /\ rungLog = <<>>
    /\ collab = {}
    /\ saveLog = <<>>
    /\ chat_messages = <<>>
    /\ reply = NoReply

SearchIdle ==
    /\ sIn = NoSearchInput
    /\ sOut = NoSearchOutput

----------------------------------------------------------------------------
(* Chat history: get_conversation_context and analyze_user_profile *)

\* limit of get_conversation_context
ContextLimit == 5
\* Fewer rows than this give the "new_visitor" profile
MinProfileRows == 2

\* The rows of one session in insertion (created_at) order
SessionRows(rows, session_id) == SelectSeq(rows, LAMBDA r : r.session_id = session_id)

\* Every row, oldest first: a query without limit
AllRows(rows, n) == rows

\* The n most recent of these rows, oldest first
LastRows(rows, n) == SubSeq(rows, Len(rows) - Min(n, Len(rows)) + 1, Len(rows))

\* get_conversation_context: read is the outcome of the query ("ok", "no_table"
\* or "raise")
GetConversationContext(c, rows, session_id, read) ==
    IF ~c.supabase THEN <<>>
    ELSE IF read # "ok" THEN <<>>
    ELSE LET data == LastRows(SessionRows(rows, session_id), ContextLimit)
         IN  [ i \in 1..(2 * Len(data)) |->
                 IF i % 2 = 1
                 THEN [role |-> "user", content |-> data[(i + 1) \div 2].user_message]
                 ELSE [role |-> "assistant", content |-> data[i \div 2].bot_response] ]

RECURSIVE JoinWith(_, _)
\* sep.join(texts)
JoinWith(texts, sep) ==
    IF texts = <<>> THEN <<>>
    ELSE IF Len(texts) = 1 THEN texts[1]
    ELSE texts[1] \o sep \o JoinWith(Tail(texts), sep)

\* profile_indicators of analyze_user_profile, in dictionary order
ProfileIndicators ==
    <<
      [label |-> "trainer", keywords |-> <<
           <<"t","r","a","i","n">>,
           <<"t","r","a","i","n","i","n","g">>,
           <<"c","o","u","r","s","e">>,
           <<"c","u","r","r","i","c","u","l","u","m">>,
           <<"l","e","s","s","o","n">>,
           <<"t","e","a","c","h">>>>],
      [label |-> "manager", keywords |-> <<
           <<"t","e","a","m">>,
           <<"m","a","n","a","g","e">>,
           <<"l","e","a","d">>,
           <<"d","e","p","a","r","t","m","e","n","t">>,
           <<"s","t","a","f","f">>,
           <<"e","m","p","l","o","y","e","e">>>>],
      [label |-> "hr", keywords |-> <<
           <<"H","R">>,
           <<"h","u","m","a","n"," ","r","e","s","o","u","r","c","e","s">>,
           <<"o","n","b","o","a","r","d">>,
           <<"e","m","p","l","o","y","e","e">>,
           <<"h","i","r","e">>,
           <<"r","e","c","r","u","i","t","m","e","n","t">>>>],
      [label |-> "consultant", keywords |-> <<
           <<"c","l","i","e","n","t">>,
           <<"c","o","n","s","u","l","t">>,
           <<"i","m","p","l","e","m","e","n","t">>,
           <<"s","o","l","u","t","i","o","n">>,
           <<"p","r","o","j","e","c","t">>>>],
      [label |-> "educator", keywords |-> <<
           <<"s","t","u","d","e","n","t">>,
           <<"l","e","a","r","n">>,
           <<"e","d","u","c","a","t","i","o","n">>,
           <<"s","c","h","o","o","l">>,
           <<"c","l","a","s","s">>>>],
      [label |-> "ld", keywords |-> <<
           <<"L","&","D">>,
           <<"l","e","a","r","n","i","n","g">>,
           <<"d","e","v","e","l","o","p","m","e","n","t">>,
           <<"s","k","i","l","l">>,
           <<"c","a","p","a","b","i","l","i","t","y">>>>]
    >>

\* needs_indicators
NeedsIndicators ==
    <<
      [label |-> "collaboration", keywords |-> <<
           <<"c","o","l","l","a","b","o","r","a","t","e">>,
           <<"w","o","r","k"," ","t","o","g","e","t","h","e","r">>,
           <<"t","e","a","m">>,
           <<"s","h","a","r","e">>,
           <<"c","o","m","m","u","n","i","c","a","t","e">>>>],
      [label |-> "knowledge_sharing", keywords |-> <<
           <<"k","n","o","w","l","e","d","g","e">>,
           <<"e","x","p","e","r","t","i","s","e">>,
           <<"s","h","a","r","e">>,
           <<"d","o","c","u","m","e","n","t">>,
           <<"w","i","k","i">>>>],
      [label |-> "training_delivery", keywords |-> <<
           <<"d","e","l","i","v","e","r">>,
           <<"t","r","a","i","n","i","n","g">>,
           <<"c","o","u","r","s","e">>,
           <<"p","r","o","g","r","a","m">>,
           <<"c","o","n","t","e","n","t">>>>],
      [label |-> "engagement", keywords |-> <<
           <<"e","n","g","a","g","e">>,
           <<"p","a","r","t","i","c","i","p","a","t","i","o","n">>,
           <<"a","c","t","i","v","e">>,
           <<"i","n","v","o","l","v","e","m","e","n","t">>,
           <<"m","o","t","i","v","a","t","i","o","n">>>>],
      [label |-> "scalability", keywords |-> <<
           <<"s","c","a","l","e">>,
           <<"g","r","o","w">>,
           <<"m","u","l","t","i","p","l","e">>,
           <<"m","a","n","y">>,
           <<"l","a","r","g","e">>,
           <<"e","x","p","a","n","d">>>>]
    >>

\* readiness_indicators
ReadinessIndicators ==
    <<
      [label |-> "interested", keywords |-> <<
           <<"i","n","t","e","r","e","s","t","e","d">>,
           <<"s","o","u","n","d","s"," ","g","o","o","d">>,
           <<"t","e","l","l"," ","m","e"," ","m","o","r","e">>,
           <<"h","o","w"," ","m","u","c","h">>,
           <<"p","r","i","c","i","n","g">>>>],
      [label |-> "evaluating", keywords |-> <<
           <<"c","o","m","p","a","r","e">>,
           <<"a","l","t","e","r","n","a","t","i","v","e">>,
           <<"v","s">>,
           <<"b","e","t","t","e","r"," ","t","h","a","n">>,
           <<"d","i","f","f","e","r","e","n","c","e">>>>],
      [label |-> "ready", keywords |-> <<
           <<"i","m","p","l","e","m","e","n","t">>,
           <<"s","t","a","r","t">>,
           <<"t","r","y">>,
           <<"d","e","m","o">>,
           <<"t","r","i","a","l">>,
           <<"m","e","e","t","i","n","g">>,
           <<"c","a","l","l">>>>]
    >>
\* sum(1 for keyword in keywords if keyword.lower() in combined_text.lower())
KeywordScore(keywords, lowered) ==
    Cardinality({ i \in 1..Len(keywords) : Contains(lowered, Lower(keywords[i])) })

\* The choice that resolves equal scores in favour of the last label
BestLabelLast(indicators, lowered, default) ==
    LET scores == [i \in 1..Len(indicators) |->
                      KeywordScore(indicators[i].keywords, lowered)]
        best == CHOOSE i \in 1..Len(indicators) :
                    /\ \A j \in 1..Len(indicators) : scores[j] <= scores[i]
                    /\ \A j \in (i + 1)..Len(indicators) : scores[j] < scores[i]
    IN  IF scores[best] > 0 THEN indicators[best].label ELSE default

\* max(scores, key=scores.get) if max(scores.values()) > 0 else default: the
\* first label, in dictionary order, among those with the highest score
BestLabel(indicators, lowered, default) ==
    LET scores == [i \in 1..Len(indicators) |->
                      KeywordScore(indicators[i].keywords, lowered)]
        best == CHOOSE i \in 1..Len(indicators) :
                    /\ \A j \in 1..Len(indicators) : scores[j] <= scores[i]
                    /\ \A j \in 1..(i - 1) : scores[j] < scores[i]
    IN  IF scores[best] > 0 THEN indicators[best].label ELSE default

\* detected_needs: every need with a positive score, in dictionary order
DetectedNeeds(lowered) ==
    LET hit == SelectSeq([i \in 1..Len(NeedsIndicators) |-> i],
                         LAMBDA i : KeywordScore(NeedsIndicators[i].keywords, lowered) > 0)
    IN  [ k \in 1..Len(hit) |-> NeedsIndicators[hit[k]].label ]

\* The dictionaries returned without an analysis carry no counts
DefaultProfile(label) ==
    [given |-> TRUE, profile |-> label, needs |-> <<>>, readiness |-> "discovery",
     counted |-> FALSE, conversation_count |-> 0, engagement_score |-> 0]

\* user_profile = None
NoProfile ==
    [given |-> FALSE, profile |-> "none", needs |-> <<>>, readiness |-> "none",
     counted |-> FALSE, conversation_count |-> 0, engagement_score |-> 0]

\* analyze_user_profile analysing any history it can read, without the
\* minimum of line 473
AnalyzeUserProfileNoMinimum(c, rows, session_id, read) ==
    IF ~c.supabase \/ ~c.emb THEN DefaultProfile("unknown")
    ELSE IF read # "ok" THEN DefaultProfile("unknown")
    ELSE LET data == SessionRows(rows, session_id)
             user_messages == [i \in 1..Len(data) |-> data[i].user_message]
             lowered == Lower(JoinWith(user_messages, <<" ">>))
         IN  [given |-> TRUE,
              profile |-> BestLabel(ProfileIndicators, lowered, "general"),
              needs |-> DetectedNeeds(lowered),
              readiness |-> BestLabel(ReadinessIndicators, lowered, "discovery"),
              counted |-> TRUE,
              conversation_count |-> Len(data),
              engagement_score |-> Min(Len(data) * 10, 100)]

\* analyze_user_profile: read is the outcome of the query
AnalyzeUserProfile(c, rows, session_id, read) ==
    IF ~c.supabase \/ ~c.emb THEN DefaultProfile("unknown")
    ELSE IF read # "ok" THEN DefaultProfile("unknown")
    ELSE LET data == SessionRows(rows, session_id)
         IN  IF Len(data) < MinProfileRows THEN DefaultProfile("new_visitor")
             ELSE LET user_messages == [i \in 1..Len(data) |-> data[i].user_message]
                      lowered == Lower(JoinWith(user_messages, <<" ">>))
                  IN  [given |-> TRUE,
                       profile |-> BestLabel(ProfileIndicators, lowered, "general"),
                       needs |-> DetectedNeeds(lowered),
                       readiness |-> BestLabel(ReadinessIndicators, lowered, "discovery"),
                       counted |-> TRUE,
                       conversation_count |-> Len(data),
                       engagement_score |-> Min(Len(data) * 10, 100)]

----------------------------------------------------------------------------
(* OpenAIService.generate_discovery_response_with_actions *)

HReady ==
    <<"I"," ","w","a","n","t"," ","a"," ","d","e","m","o">>

HEvaluating ==
    <<"c","o","m","p","a","r","e"," ","i","t"," ","v","s"," ","o","t","h","e","r","s">>

HInterested ==
    <<"t","e","l","l"," ","m","e"," ","m","o","r","e">>

\* Three keywords of 'manager' and of no other profile
HManager ==
    <<"m","y"," ","t","e","a","m"," ","a","n","d"," ","s","t","a","f","f"," ","I"," ","m","a",
      "n","a","g","e">>

\* One keyword each of 'manager' and 'hr', of 'interested' and 'ready'
HTie ==
    <<"a","n"," ","e","m","p","l","o","y","e","e"," ","d","e","m","o",","," ","t","e","l","l",
      " ","m","e"," ","m","o","r","e">>

HPlain ==
    <<"h","e","l","l","o"," ","t","h","e","r","e">>

ApologyUnable ==
    <<"I"," ","a","p","o","l","o","g","i","z","e",","," ","b","u","t"," ","I","'","m"," ","c",
      "u","r","r","e","n","t","l","y"," ","u","n","a","b","l","e"," ","t","o"," ","p","r","o",
      "c","e","s","s"," ","y","o","u","r"," ","q","u","e","s","t","i","o","n","."," ","P","l",
      "e","a","s","e"," ","t","r","y"," ","a","g","a","i","n"," ","l","a","t","e","r",".">>

DefaultResponse ==
    <<"I","'","d"," ","l","o","v","e"," ","t","o"," ","h","e","l","p"," ","y","o","u"," ","l",
      "e","a","r","n"," ","m","o","r","e"," ","a","b","o","u","t"," ","H","u","d","d","l","e",
      "U","p","!">>

CannedResponse ==
    <<"I","'","d"," ","l","o","v","e"," ","t","o"," ","h","e","l","p"," ","y","o","u"," ","l",
      "e","a","r","n"," ","m","o","r","e"," ","a","b","o","u","t"," ","H","u","d","d","l","e",
      "U","p","!"," ","W","h","a","t"," ","s","p","e","c","i","f","i","c"," ","c","h","a","l",
      "l","e","n","g","e","s"," ","a","r","e"," ","y","o","u"," ","f","a","c","i","n","g"," ",
      "w","i","t","h"," ","y","o","u","r"," ","c","u","r","r","e","n","t"," ","l","e","a","r",
      "n","i","n","g"," ","o","r"," ","c","o","l","l","a","b","o","r","a","t","i","o","n"," ",
      "p","r","o","c","e","s","s","e","s","?">>

EndpointFallbackResponse ==
    <<"I","'","d"," ","l","o","v","e"," ","t","o"," ","h","e","l","p"," ","y","o","u"," ","l",
      "e","a","r","n"," ","m","o","r","e"," ","a","b","o","u","t"," ","H","u","d","d","l","e",
      "U","p","!"," ","W","h","a","t"," ","s","p","e","c","i","f","i","c"," ","q","u","e","s",
      "t","i","o","n","s"," ","d","o"," ","y","o","u"," ","h","a","v","e","?">>

KnowledgeHeader ==
    <<"K","N","O","W","L","E","D","G","E"," ","B","A","S","E"," ","C","O","N","T","E","X","T",
      ":","\n">>

ResultPrefix ==
    <<"\n","R","e","s","u","l","t"," ">>

SimilarityPrefix ==
    <<" ","(","s","i","m","i","l","a","r","i","t","y",":"," ">>

SimilaritySuffix ==
    <<")",":","\n">>

KwDerek ==
    <<"d","e","r","e","k">>

KwSchedule ==
    <<"s","c","h","e","d","u","l","e">>

KwResult1 ==
    <<"R","e","s","u","l","t"," ","1">>

KwSimilarity ==
    <<"s","i","m","i","l","a","r","i","t","y",":">>

KwResultLine ==
    <<"R","e","s","u","l","t"," ">>

Ellipsis ==
    <<".",".",".">>

TDerek ==
    <<" ","L","e","t","'","s"," ","s","c","h","e","d","u","l","e"," ","a"," ","c","a","l","l",
      " ","w","i","t","h"," ","D","e","r","e","k","."," ","\n">>

TPlainText ==
    <<"H","u","d","d","l","e","U","p"," ","i","s"," ","a"," ","p","l","a","t","f","o","r","m",
      ","," ","n","o","t"," ","J","S","O","N",".">>

TKnowledge ==
    <<"H","u","d","d","l","e","U","p"," ","l","e","t","s"," ","t","e","a","m","s"," ","s","h",
      "a","r","e"," ","k","n","o","w","l","e","d","g","e",".">>

\* A knowledge content of two lines, and its lines joined
TKnowledgeLines ==
    <<" ","P","l","a","n","s"," ","s","t","a","r","t"," ","a","t"," ","t","e","n"," ","d","o",
      "l","l","a","r","s",".","\n",
      " "," ","T","e","a","m","s"," ","p","a","y"," ","p","e","r",
      " ","s","e","a","t","."," ">>
TKnowledgeJoined ==
    <<"P","l","a","n","s"," ","s","t","a","r","t"," ","a","t"," ","t","e","n"," ","d","o","l",
      "l","a","r","s","."," ","T","e","a","m","s"," ","p","a","y"," ","p","e","r"," ","s","e",
      "a","t",".">>

\* A response value that is not a string
NotAString == <<"not a string">>

TJsonResponse ==
    <<"H","u","d","d","l","e","U","p"," ","h","e","l","p","s"," ","t","e","a","m","s"," ","l",
      "e","a","r","n"," ","t","o","g","e","t","h","e","r",".">>

\* Completion text: an object whose list repeats one action three times
JsonThreeQuestions ==
    <<"{","\"","r","e","s","p","o","n","s","e","\"",":"," ","\"","H","u","d","d","l","e","U",
      "p"," ","h","e","l","p","s"," ","t","e","a","m","s"," ","l","e","a","r","n"," ","t","o",
      "g","e","t","h","e","r",".","\"",","," ","\"","a","c","t","i","o","n","s","\"",":"," ",
      "[","{","\"","t","y","p","e","\"",":"," ","\"","q","u","e","s","t","i","o","n","s","\"",
      ","," ","\"","l","a","b","e","l","\"",":"," ","\"","A","s","k"," ","m","o","r","e"," ",
      "q","u","e","s","t","i","o","n","s","\"",","," ","\"","d","e","s","c","r","i","p","t","i",
      "o","n","\"",":"," ","\"","C","o","n","t","i","n","u","e"," ","e","x","p","l","o","r","i",
      "n","g"," ","H","u","d","d","l","e","U","p","\"","}",","," ","{","\"","t","y","p","e",
      "\"",":"," ","\"","q","u","e","s","t","i","o","n","s","\"",","," ","\"","l","a","b","e",
      "l","\"",":"," ","\"","A","s","k"," ","m","o","r","e"," ","q","u","e","s","t","i","o","n",
      "s","\"",","," ","\"","d","e","s","c","r","i","p","t","i","o","n","\"",":"," ","\"","C",
      "o","n","t","i","n","u","e"," ","e","x","p","l","o","r","i","n","g"," ","H","u","d","d",
      "l","e","U","p","\"","}",","," ","{","\"","t","y","p","e","\"",":"," ","\"","q","u","e",
      "s","t","i","o","n","s","\"",","," ","\"","l","a","b","e","l","\"",":"," ","\"","A","s",
      "k"," ","m","o","r","e"," ","q","u","e","s","t","i","o","n","s","\"",","," ","\"","d","e",
      "s","c","r","i","p","t","i","o","n","\"",":"," ","\"","C","o","n","t","i","n","u","e"," ",
      "e","x","p","l","o","r","i","n","g"," ","H","u","d","d","l","e","U","p","\"","}","]","}">>

\* Completion text: an object with a single action
JsonOneAction ==
    <<"{","\"","r","e","s","p","o","n","s","e","\"",":"," ","\"","H","u","d","d","l","e","U",
      "p"," ","h","e","l","p","s"," ","t","e","a","m","s"," ","l","e","a","r","n"," ","t","o",
      "g","e","t","h","e","r",".","\"",","," ","\"","a","c","t","i","o","n","s","\"",":"," ",
      "[","{","\"","t","y","p","e","\"",":"," ","\"","q","u","e","s","t","i","o","n","s","\"",
      ","," ","\"","l","a","b","e","l","\"",":"," ","\"","A","s","k"," ","m","o","r","e"," ",
      "q","u","e","s","t","i","o","n","s","\"",","," ","\"","d","e","s","c","r","i","p","t","i",
      "o","n","\"",":"," ","\"","C","o","n","t","i","n","u","e"," ","e","x","p","l","o","r","i",
      "n","g"," ","H","u","d","d","l","e","U","p","\"","}","]","}">>

\* Completion text: an object without the actions key
JsonNoActions ==
    <<"{","\"","r","e","s","p","o","n","s","e","\"",":"," ","\"","H","u","d","d","l","e","U",
      "p"," ","h","e","l","p","s"," ","t","e","a","m","s"," ","l","e","a","r","n"," ","t","o",
      "g","e","t","h","e","r",".","\"","}">>

\* Completion text: an object without the response key and with an empty list
JsonNoResponse ==
    <<"{","\"","a","c","t","i","o","n","s","\"",":"," ","[","]","}">>

\* Completion text: an object whose response is a number
JsonNumberResponse ==
    <<"{","\"","r","e","s","p","o","n","s","e","\"",":"," ","5","}">>

\* Completion text: an object with the five catalog actions, preview first
JsonFullCatalog ==
    <<"{","\"","r","e","s","p","o","n","s","e","\"",":"," ","\"","H","u","d","d","l","e","U",
      "p"," ","h","e","l","p","s"," ","t","e","a","m","s"," ","l","e","a","r","n"," ","t","o",
      "g","e","t","h","e","r",".","\"",","," ","\"","a","c","t","i","o","n","s","\"",":"," ",
      "[","{","\"","t","y","p","e","\"",":"," ","\"","s","o","l","u","t","i","o","n","_","p",
      "r","e","v","i","e","w","\"",","," ","\"","l","a","b","e","l","\"",":"," ","\"","E","x",
      "p","l","o","r","e"," ","H","u","d","d","l","e","U","p"," ","S","o","l","u","t","i","o",
      "n"," ","P","r","e","v","i","e","w","\"",","," ","\"","d","e","s","c","r","i","p","t","i",
      "o","n","\"",":"," ","\"","S","e","e"," ","h","o","w"," ","H","u","d","d","l","e","U","p",
      " ","w","o","r","k","s"," ","f","o","r"," ","y","o","u","r"," ","n","e","e","d","s","\"",
      "}",","," ","{","\"","t","y","p","e","\"",":"," ","\"","c","a","l","e","n","d","a","r",
      "\"",","," ","\"","l","a","b","e","l","\"",":"," ","\"","F","i","n","d"," ","a"," ","t",
      "i","m","e"," ","t","o"," ","m","e","e","t"," ","w","i","t","h"," ","D","e","r","e","k",
      "\"",","," ","\"","d","e","s","c","r","i","p","t","i","o","n","\"",":"," ","\"","S","c",
      "h","e","d","u","l","e"," ","a"," ","p","e","r","s","o","n","a","l","i","z","e","d"," ",
      "d","e","m","o","\"","}",","," ","{","\"","t","y","p","e","\"",":"," ","\"","p","r","o",
      "c","e","s","s","_","a","n","a","l","y","s","i","s","\"",","," ","\"","l","a","b","e","l",
      "\"",":"," ","\"","S","e","e"," ","h","o","w"," ","y","o","u","r"," ","p","r","o","c","e",
      "s","s","e","s"," ","c","o","u","l","d"," ","w","o","r","k"," ","i","n"," ","H","u","d",
      "d","l","e","U","p","\"",","," ","\"","d","e","s","c","r","i","p","t","i","o","n","\"",
      ":"," ","\"","D","i","s","c","o","v","e","r"," ","i","m","p","r","o","v","e","m","e","n",
      "t","s","\"","}",","," ","{","\"","t","y","p","e","\"",":"," ","\"","r","e","s","e","a",
      "r","c","h","\"",","," ","\"","l","a","b","e","l","\"",":"," ","\"","R","e","c","e","i",
      "v","e"," ","r","e","s","e","a","r","c","h"," ","o","n"," ","H","u","d","d","l","e","U",
      "p"," ","b","e","n","e","f","i","t","s","\"",","," ","\"","d","e","s","c","r","i","p","t",
      "i","o","n","\"",":"," ","\"","G","e","t"," ","d","a","t","a"," ","o","n"," ","p","r","o",
      "b","l","e","m","s"," ","H","u","d","d","l","e","U","p"," ","s","o","l","v","e","s","\"",
      "}",","," ","{","\"","t","y","p","e","\"",":"," ","\"","q","u","e","s","t","i","o","n",
      "s","\"",","," ","\"","l","a","b","e","l","\"",":"," ","\"","A","s","k"," ","m","o","r",
      "e"," ","q","u","e","s","t","i","o","n","s","\"",","," ","\"","d","e","s","c","r","i","p",
      "t","i","o","n","\"",":"," ","\"","C","o","n","t","i","n","u","e"," ","e","x","p","l","o",
      "r","i","n","g"," ","H","u","d","d","l","e","U","p","\"","}","]","}">>

\* Completion text: valid JSON that is not an object
JsonString ==
    <<"\"","L","e","t","'","s"," ","s","c","h","e","d","u","l","e"," ","a"," ","c","a","l","l",
      ".","\"">>

\* json.loads on the completion texts above; any other text here is not JSON
JsonDocs ==
    { [raw |-> JsonThreeQuestions,
       value |->
       [kind |-> "object", has_response |-> TRUE, response |-> TJsonResponse,
       has_actions |-> TRUE,
       actions |-> <<[type |-> "questions", label |-> "Ask more questions", description |-> "Continue exploring HuddleUp"],
                      [type |-> "questions", label |-> "Ask more questions", description |-> "Continue exploring HuddleUp"],
                      [type |-> "questions", label |-> "Ask more questions", description |-> "Continue exploring HuddleUp"]>>]],
      [raw |-> JsonOneAction,
       value |->
       [kind |-> "object", has_response |-> TRUE, response |-> TJsonResponse,
       has_actions |-> TRUE,
       actions |-> <<[type |-> "questions", label |-> "Ask more questions", description |-> "Continue exploring HuddleUp"]>>]],
      [raw |-> JsonNoActions,
       value |->
       [kind |-> "object", has_response |-> TRUE, response |-> TJsonResponse,
       has_actions |-> FALSE,
       actions |-> <<>>]],
      [raw |-> JsonNoResponse,
       value |->
       [kind |-> "object", has_response |-> FALSE, response |-> <<>>,
       has_actions |-> TRUE,
       actions |-> <<>>]],
      [raw |-> JsonNumberResponse,
       value |->
       [kind |-> "object", has_response |-> TRUE, response |-> NotAString,
       has_actions |-> FALSE,
       actions |-> <<>>]],
      [raw |-> JsonFullCatalog,
       value |->
       [kind |-> "object", has_response |-> TRUE, response |-> TJsonResponse,
       has_actions |-> TRUE,
       actions |-> <<[type |-> "solution_preview", label |-> "Explore HuddleUp Solution Preview", description |-> "See how HuddleUp works for your needs"],
                      [type |-> "calendar", label |-> "Find a time to meet with Derek", description |-> "Schedule a personalized demo"],
                      [type |-> "process_analysis", label |-> "See how your processes could work in HuddleUp", description |-> "Discover improvements"],
                      [type |-> "research", label |-> "Receive research on HuddleUp benefits", description |-> "Get data on problems HuddleUp solves"],
                      [type |-> "questions", label |-> "Ask more questions", description |-> "Continue exploring HuddleUp"]>>]],
      [raw |-> JsonString,
       value |->
       [kind |-> "other", has_response |-> FALSE, response |-> <<>>,
       has_actions |-> FALSE, actions |-> <<>>]] }
DecodeError ==
    [kind |-> "error", has_response |-> FALSE, response |-> <<>>,
     has_actions |-> FALSE, actions |-> <<>>]

\* json.loads(raw_response)
JsonLoads(raw_response) ==
    IF \E d \in JsonDocs : d.raw = raw_response
    THEN (CHOOSE d \in JsonDocs : d.raw = raw_response).value
    ELSE DecodeError

\* Minimum stripped length for a result to enter knowledge_context
MinKnowledgeLength == 20
\* Results considered for knowledge_context
KnowledgeResults == 3
\* Characters of knowledge content kept in the response
MaxOverrideLength == 800
\* query_count from which the engagement level is "full"
FullEngagementCount == 5

Digits == <<"0","1","2","3","4","5","6","7","8","9">>

\* f"{similarity:.3f}" for a similarity in hundredths
FormatSimilarity(n) ==
    <<Digits[(n \div 100) + 1], ".", Digits[((n \div 10) % 10) + 1], Digits[(n % 10) + 1], "0">>

\* result.get('content') or result.get('text') or ''
ResultText(result) ==
    IF Truthy(result.content) THEN result.content
    ELSE IF Truthy(result.text) THEN result.text
    ELSE <<>>

RECURSIVE KnowledgeEntries(_, _)
\* The "Result i" entries of results i..KnowledgeResults
KnowledgeEntries(results, i) ==
    IF i > Min(KnowledgeResults, Len(results)) THEN <<>>
    ELSE LET content == ResultText(results[i])
             entry == IF content # <<>> /\ Len(Strip(content)) > MinKnowledgeLength
                      THEN ResultPrefix \o <<Digits[i + 1]>> \o SimilarityPrefix
                               \o FormatSimilarity(results[i].similarity)
                               \o SimilaritySuffix \o Strip(content) \o <<"\n">>
                      ELSE <<>>
         IN  entry \o KnowledgeEntries(results, i + 1)

\* knowledge_context: built from semantic_search at threshold 0.3 when
\* openai_service.py sees a semantic_search_service
KnowledgeContext(c, question, emb, pine) ==
    IF c.sem # "ok" THEN <<>>
    ELSE LET search_results == SemanticSearch(c, question, DirectThreshold, emb, pine)
         IN  IF search_results.success /\ search_results.results # <<>>
             THEN KnowledgeHeader \o KnowledgeEntries(search_results.results, 1) \o <<"\n">>
             ELSE <<>>

RECURSIVE SplitLines(_)
\* str.split('\n')
SplitLines(s) ==
    IF \A i \in 1..Len(s) : s[i] # "\n" THEN <<s>>
    ELSE LET i == CHOOSE k \in 1..Len(s) :
                      s[k] = "\n" /\ \A j \in 1..(k - 1) : s[j] # "\n"
         IN  <<SubSeq(s, 1, i - 1)>> \o SplitLines(SubSeq(s, i + 1, Len(s)))

\* str.startswith
StartsWith(s, p) == Len(s) >= Len(p) /\ SubSeq(s, 1, Len(p)) = p

RECURSIVE ContentLines(_)
\* content_lines: the stripped non-empty lines up to the next "Result " line
ContentLines(lines) ==
    IF lines = <<>> THEN <<>>
    ELSE LET line == Head(lines)
         IN  IF Strip(line) # <<>> /\ ~StartsWith(line, KwResultLine)
             THEN <<Strip(line)>> \o ContentLines(Tail(lines))
             ELSE IF StartsWith(line, KwResultLine) THEN <<>>
             ELSE ContentLines(Tail(lines))

\* s[:n]
Take(s, n) == SubSeq(s, 1, Min(n, Len(s)))

\* `"derek" in response_text.lower() or "schedule" in response_text.lower()`
MentionsScheduling(response_text) ==
    Contains(Lower(response_text), KwDerek) \/ Contains(Lower(response_text), KwSchedule)

FallbackResponseTextRaw(knowledge_context, response_text) == response_text

\* Lines 757-781: the text of a completion that is not JSON, replaced by the
\* first knowledge result when it talks about scheduling
FallbackResponseText(knowledge_context, response_text) ==
    IF knowledge_context # <<>> /\ MentionsScheduling(response_text)
    THEN LET lines == SplitLines(knowledge_context)
             hits == { i \in 1..Len(lines) :
                         Contains(lines[i], KwResult1) /\ Contains(lines[i], KwSimilarity) }
         IN  IF hits = {} THEN response_text
             ELSE LET first == CHOOSE i \in hits : \A j \in hits : i <= j
                      content_lines ==
                          IF first + 1 <= Len(lines)
                          THEN ContentLines(SubSeq(lines, first + 1, Len(lines)))
                          ELSE <<>>
                  IN  IF content_lines # <<>>
                      THEN Take(JoinWith(content_lines, <<" ">>), MaxOverrideLength)
                               \o Ellipsis
                      ELSE response_text
    ELSE response_text

Action(type, label, description) ==
    [type |-> type, label |-> label, description |-> description]

ActionPreview ==
    Action("solution_preview", "Explore HuddleUp Solution Preview",
           "See how HuddleUp works for your needs")
ActionQuestions ==
    Action("questions", "Ask more questions", "Continue exploring HuddleUp")

\* The two actions of the initial stage (the same on every path)
InitialActions == <<ActionPreview, ActionQuestions>>

\* The five actions substituted on the parsed-JSON path
FullActionsParsed ==
    << Action("calendar", "Find a time to meet with Derek", "Schedule a personalized demo"),
       ActionPreview,
       Action("process_analysis", "See how your processes could work in HuddleUp",
              "Discover improvements"),
       Action("research", "Receive research on HuddleUp benefits",
              "Get data on problems HuddleUp solves"),
       ActionQuestions >>

\* The five actions of the parse-failure path, before reordering
FullActionsFallback ==
    << Action("calendar", "Find a time to meet with Derek",
              "Schedule a personalized demo with our learning collaboration expert"),
       Action("solution_preview", "Explore HuddleUp Solution Preview",
              "See how HuddleUp works for your specific needs"),
       Action("process_analysis", "See how your processes could work in HuddleUp",
              "Discover specific improvements for your current workflows"),
       Action("research", "Receive research on HuddleUp benefits",
              "Get data on problems HuddleUp solves in your industry"),
       ActionQuestions >>

\* The five actions of the exception path
FullActionsException ==
    << Action("calendar", "Find a time to meet with Derek", "Schedule a demo"),
       ActionPreview,
       Action("process_analysis", "See how your processes could work in HuddleUp",
              "Discover improvements"),
       Action("research", "Receive research on HuddleUp benefits",
              "Get data on problems HuddleUp solves"),
       ActionQuestions >>

\* An order chosen by the role label of the profile instead of its readiness
ReorderByRole(actions, user_profile) ==
    IF ~user_profile.given THEN actions
    ELSE IF user_profile.profile = "manager"
         THEN <<actions[2], actions[3], actions[4], actions[1], actions[5]>>
    ELSE actions

\* Lines 794-805: the order of the five actions on the parse-failure path
ReorderByReadiness(actions, user_profile) ==
    IF ~user_profile.given THEN actions
    ELSE IF user_profile.readiness = "ready" THEN actions
    ELSE IF user_profile.readiness = "evaluating"
         THEN <<actions[2], actions[3], actions[4], actions[1], actions[5]>>
    ELSE IF user_profile.readiness = "interested"
         THEN <<actions[2], actions[4], actions[3], actions[1], actions[5]>>
    ELSE actions

\* query_count: the user messages of conversation_context
QueryCount(conversation_context) ==
    IF conversation_context.given /\ conversation_context.messages # <<>>
    THEN Cardinality({ i \in 1..Len(conversation_context.messages) :
                           conversation_context.messages[i].role = "user" })
    ELSE 0

\* A stage that turns 'full' only above 5 queries
EngagementLevelAbove(query_count) ==
    IF query_count <= FullEngagementCount THEN "initial" ELSE "full"

\* engagement_level
EngagementLevel(query_count) ==
    IF query_count < FullEngagementCount THEN "initial" ELSE "full"

\* What the completion call may do: raise, or return one of these texts
\* A completion of white space only
TBlankCompletion == <<" ", "\n">>

DiscoveryCompletions ==
    { [kind |-> "raise", content |-> <<>>] }
        \cup { [kind |-> "content", content |-> t] :
                   t \in { <<"\n">> \o JsonThreeQuestions, JsonOneAction, JsonNoActions,
                           JsonNoResponse, JsonNumberResponse, JsonFullCatalog, JsonString,
                           TDerek, TPlainText, TBlankCompletion } }

\* A smaller choice, for behaviours of several requests
SessionCompletions ==
    { [kind |-> "raise", content |-> <<>>],
      [kind |-> "content", content |-> JsonNoActions],
      [kind |-> "content", content |-> TPlainText] }

NoModelActions == [given |-> FALSE, list |-> <<>>]

\* The validation with the override applied at every stage
ValidatedActionsAnyStage(result, query_count) ==
    IF ~result.has_actions
    THEN (IF query_count >= FullEngagementCount THEN FullActionsParsed
          ELSE InitialActions)
    ELSE IF Len(result.actions) <= 2 THEN FullActionsParsed
    ELSE result.actions

\* Lines 724-749: the action list of a parsed object after validation
ValidatedActions(result, query_count) ==
    IF ~result.has_actions
    THEN (IF query_count >= FullEngagementCount THEN FullActionsParsed
          ELSE InitialActions)
    ELSE IF query_count >= FullEngagementCount /\ Len(result.actions) <= 2
    THEN FullActionsParsed
    ELSE result.actions

\* generate_discovery_response_with_actions: the dictionary returned
\* (response, actions), with the path taken, the query_count and
\* engagement_level computed, the stripped completion text and the action list
\* the completion proposed
GenerateDiscoveryResponseWithActions(c, conversation_context, user_profile, knowledge_context, out) ==
    IF c.openai # "ok"
    THEN [response |-> ApologyUnable, actions |-> <<>>, path |-> "no_client",
          query_count |-> 0, engagement_level |-> "none", raw |-> <<>>,
          model_actions |-> NoModelActions]
    ELSE LET query_count == QueryCount(conversation_context)
             engagement_level == EngagementLevel(query_count)
             full == engagement_level = "full"
             on_exception ==
                 [response |-> CannedResponse,
                  actions |-> IF full THEN FullActionsException ELSE InitialActions,
                  path |-> "exception", query_count |-> query_count,
                  engagement_level |-> engagement_level, raw |-> <<>>,
                  model_actions |-> NoModelActions]
         IN  IF out.kind # "content" THEN on_exception
             ELSE LET raw_response == Strip(out.content)
                      result == JsonLoads(raw_response)
                  IN  IF result.kind = "error"
                      THEN [response |-> FallbackResponseText(knowledge_context,
                                                              raw_response),
                            actions |-> IF full
                                        THEN ReorderByReadiness(FullActionsFallback,
                                                                user_profile)
                                        ELSE InitialActions,
                            path |-> "parse_failure", query_count |-> query_count,
                            engagement_level |-> engagement_level, raw |-> raw_response,
                            model_actions |-> NoModelActions]
                      ELSE IF result.kind = "other" THEN on_exception
                      ELSE [response |-> IF result.has_response THEN result.response
                                         ELSE DefaultResponse,
                            actions |-> ValidatedActions(result, query_count),
                            path |-> "parsed", query_count |-> query_count,
                            engagement_level |-> engagement_level, raw |-> raw_response,
                            model_actions |-> [given |-> result.has_actions,
                                               list |-> result.actions]]

----------------------------------------------------------------------------
(* discovery_conversation *)

\* Calls of the discovery endpoint in one behaviour
MaxCalls == 2
\* Longest history the store holds for the caller's session at the start
MaxHist == 5

NoContext == [given |-> FALSE, messages |-> <<>>]
NoDiscoveryResult == [response |-> <<>>, actions |-> <<>>]
NoTrace ==
    [path |-> "none", query_count |-> 0, engagement_level |-> "none", raw |-> <<>>,
     model_actions |-> NoModelActions]
NoDiscoveryReply == [response |-> None, actions |-> <<>>, success |-> FALSE]

\* The DiscoveryResponse of the endpoint's own except clause
EndpointFallback ==
    [response |-> EndpointFallbackResponse, actions |-> <<ActionQuestions>>,
     success |-> FALSE]

DiscLocalsIdle ==
    /\ d_session_id = NoSession
    /\ d_conversation_context = NoContext
    /\ d_user_profile = NoProfile
    /\ context_read = "none"
    /\ d_knowledge_context = <<>>
    /\ discovery_result = NoDiscoveryResult
    /\ trace = NoTrace
    /\ dreply = NoDiscoveryReply

DiscIdle ==
    /\ dpc = "idle"
    /\ dreq = NoRequest
    /\ DiscLocalsIdle
    /\ calls = 0
    /\ fullSeen = {}

\* A request arrives: the locals of the handler are fresh
DiscBegin(q, sid) ==
    /\ calls' = calls + 1
    /\ dpc' = "context"
    /\ dreq' = [question |-> q, session_id |-> sid]
    /\ d_session_id' = NoSession
    /\ d_conversation_context' = NoContext
    /\ d_user_profile' = NoProfile
    /\ context_read' = "none"
    /\ d_knowledge_context' = <<>>
    /\ discovery_result' = NoDiscoveryResult
    /\ trace' = NoTrace
    /\ dreply' = NoDiscoveryReply
    /\ UNCHANGED <<cfg, askVars, searchVars, fullSeen>>

\* The first request
DiscStart(q, sid) ==
    /\ dpc = "idle"
    /\ DiscBegin(q, sid)

\* A later request, after the previous one was answered
DiscAgain(q, sid) ==
    /\ dpc = "done"
    /\ calls < MaxCalls
    /\ DiscBegin(q, sid)

\* `request.session_id or generate_session_id()`
DiscoverySessionId(req, rows) ==
    IF req.session_id # NoSession THEN req.session_id ELSE GenerateSessionId(rows)

\* Lines 362-383: the service check, the session id, context and profile
DiscContext ==
    /\ dpc = "context"
    /\ IF ~(OpenAIAvailable(cfg))
       THEN /\ dpc' = "done"
            /\ dreply' = EndpointFallback
            /\ trace' = [trace EXCEPT !.path = "unavailable"]
            /\ UNCHANGED <<d_session_id, d_conversation_context, d_user_profile, context_read>>
       ELSE /\ dpc' = "generate"
            /\ d_session_id' = DiscoverySessionId(dreq, chat_messages)
            /\ IF SemanticAvailable(cfg)
               THEN \E read \in {"ok", "no_table", "raise"},
                       profile_read \in {"ok", "raise"} :
                        /\ d_conversation_context' =
                               [given |-> TRUE,
                                messages |-> GetConversationContext(cfg, chat_messages,
                                                 d_session_id', read)]
                        /\ d_user_profile' =
                               AnalyzeUserProfile(cfg, chat_messages, d_session_id',
                                                  profile_read)
                        /\ context_read' = IF cfg.supabase THEN read ELSE "no_store"
               ELSE UNCHANGED <<d_conversation_context, d_user_profile, context_read>>
            /\ UNCHANGED <<dreply, trace>>
    /\ UNCHANGED <<cfg, askVars, searchVars, dreq, d_knowledge_context, discovery_result,
                   calls, fullSeen>>

\* A match whose content is long enough for knowledge_context
KnowledgeMatch(id, score, content) ==
    [id |-> id, score |-> score,
     metadata |-> [content |-> content, text |-> <<>>, answer |-> <<>>,
                   document_id |-> <<>>],
     chunk |-> [found |-> FALSE, content |-> <<>>]]

\* What the index may hold for a discovery question
DiscoveryMatchLists ==
    { <<>>,
      <<KnowledgeMatch("v1", 70, TKnowledge)>>,
      <<KnowledgeMatch("v1", 70, TKnowledgeLines)>>,
      <<KnowledgeMatch("v1", 70, TUsable), KnowledgeMatch("v2", 45, TKnowledge)>> }

\* Lines 385-391: the generator is called, the index holding one of `lists`
\* and the completion call ending as one of `outs`
Generate(lists, outs) ==
    /\ dpc = "generate"
    /\ dpc' = "save"
    /\ \E emb \in {"ok", "raise"}, pine \in PineconeOutcomes(lists) :
           \E kc \in { IF cfg.openai = "ok"
                       THEN KnowledgeContext(cfg, dreq.question, emb, pine)
                       ELSE <<>> } :
               \E out \in outs :
               \E g \in { GenerateDiscoveryResponseWithActions(cfg,
                            d_conversation_context, d_user_profile, kc, out) } :
                   /\ d_knowledge_context' = kc
                   /\ discovery_result' = [response |-> g.response,
                                           actions |-> g.actions]
                   /\ trace' = [path |-> g.path, query_count |-> g.query_count,
                                engagement_level |-> g.engagement_level,
                                raw |-> g.raw, model_actions |-> g.model_actions]
                   /\ fullSeen' = IF g.engagement_level = "full"
                                  THEN fullSeen \cup {d_session_id}
                                  ELSE fullSeen
    /\ UNCHANGED <<cfg, askVars, searchVars, dreq, d_session_id, d_conversation_context,
                   d_user_profile, context_read, dreply, calls>>

DiscGenerate == Generate(DiscoveryMatchLists, DiscoveryCompletions)

SessionGenerate == Generate({<<>>}, SessionCompletions)

\* A save step that keeps the text it stores in a variable of the module,
\* where ask_faq keeps its answer
DiscSaveSharedResponse ==
    /\ dpc = "save"
    /\ dpc' = "return"
    /\ response' = discovery_result.response
    /\ IF SemanticAvailable(cfg)
       THEN \E emb \in {"ok", "raise"}, ins \in {"ok", "no_table", "raise"} :
                chat_messages' = SaveChatWithEmbedding(cfg, chat_messages, d_session_id,
                                     dreq.question, discovery_result.response, emb, ins)
       ELSE UNCHANGED chat_messages
    /\ UNCHANGED <<cfg, pc, request, sources, search_method, semantic_results,
                   index_scores, kb_results, rungLog, collab, saveLog, reply,
                   searchVars, dreq, d_session_id, d_conversation_context, d_user_profile,
                   context_read, d_knowledge_context, discovery_result, trace, dreply,
                   calls, fullSeen>>

\* Lines 393-409: the exchange is saved
DiscSave ==
    /\ dpc = "save"
    /\ dpc' = "return"
    /\ IF SemanticAvailable(cfg)
       THEN \E emb \in {"ok", "raise"}, ins \in {"ok", "no_table", "raise"} :
                chat_messages' = SaveChatWithEmbedding(cfg, chat_messages, d_session_id,
                                     dreq.question, discovery_result.response, emb, ins)
       ELSE UNCHANGED chat_messages
    /\ UNCHANGED <<cfg, pc, request, response, sources, search_method, semantic_results,
                   index_scores, kb_results, rungLog, collab, saveLog, reply,
                   searchVars, dreq, d_session_id, d_conversation_context, d_user_profile,
                   context_read, d_knowledge_context, discovery_result, trace, dreply,
                   calls, fullSeen>>

\* DiscoveryResponse accepts a str response and a list of str -> str dicts
ValidDiscoveryResponse(result) == result.response \notin {NotAString, None}

\* Lines 411-426: the DiscoveryResponse returned, or the fallback of the
\* endpoint's except clause when building it fails
DiscReturn ==
    /\ dpc = "return"
    /\ dpc' = "done"
    /\ dreply' = IF ValidDiscoveryResponse(discovery_result)
                 THEN [response |-> discovery_result.response,
                       actions |-> discovery_result.actions, success |-> TRUE]
                 ELSE EndpointFallback
    /\ UNCHANGED <<cfg, askVars, searchVars, dreq, d_session_id, d_conversation_context,
                   d_user_profile, context_read, d_knowledge_context, discovery_result,
                   trace, calls, fullSeen>>

----------------------------------------------------------------------------
(* Specifications *)

\* One ask_faq request against any configuration
Init ==
    /\ cfg \in Configs
    /\ AskIdle
    /\ SearchIdle
    /\ DiscIdle

Next ==
    \/ \E req \in AskRequests : AskStart(req.question, req.session_id)
    \/ SemanticSearchCall
    \/ SemanticUse
    \/ KeywordRung
    \/ GenerationRung
    \/ SaveRung
    \/ AskReturn

Spec == Init /\ [][Next]_vars

----------------------------------------------------------------------------
(* semantic_search on two queries that differ only in a pricing keyword *)

QueryPrefix ==
    <<"W","h","a","t"," ","i","s"," ","t","h","e"," ">>
QuerySuffix ==
    <<" ","o","f"," ","H","u","d","d","l","e","U","p","?">>

\* A query with a pricing keyword, and the same query without it
QueryPairs ==
    { [with |-> QueryPrefix \o kw \o QuerySuffix, without |-> QueryPrefix \o QuerySuffix] :
          kw \in PricingKeywords }

\* similarity_threshold values passed by callers, in hundredths
Thresholds == {0, 5, 10, 11, 20, 30, 40, 60, 100}

\* Scores of the matches the index holds, best first
ScoreLists == { <<>>, <<70>>, <<70, 45>>, <<45, 15>>, <<15, 10>>, <<10, 5>> }

MatchesOfScores(scores) ==
    [ i \in 1..Len(scores) |->
        [id |-> "v1", score |-> scores[i],
         metadata |-> [content |-> TUsable, text |-> <<>>, answer |-> <<>>,
                       document_id |-> <<>>],
         chunk |-> [found |-> FALSE, content |-> <<>>]] ]

SearchConfigs ==
    { c \in Configs : c.sem = "ok" /\ c.openai = "none" /\ c.db = "none" }

\* One call of semantic_search: what it returns and the adjusted_threshold it
\* computed (-1 when the call ended before computing it)
RunSearch(c, query, similarity_threshold, emb, pine) ==
    [ result |-> SemanticSearch(c, query, similarity_threshold, emb, pine),
      adjusted_threshold |->
          IF ~c.pinecone \/ ~c.emb \/ (EmbeddingCallsApi(query) /\ emb = "raise")
          THEN -1
          ELSE AdjustedThreshold(query, similarity_threshold) ]

SearchWithKeyword ==
    /\ sIn # NoSearchInput
    /\ "with" \notin sOut.ran
    /\ \E emb \in {"ok", "raise"}, pine \in PineconeOutcomes({sIn.matches}) :
           sOut' = [sOut EXCEPT
                      !.with = RunSearch(cfg, sIn.with, sIn.threshold, emb, pine),
                      !.ran = @ \cup {"with"}]
    /\ UNCHANGED <<cfg, askVars, sIn, discVars>>

SearchWithoutKeyword ==
    /\ sIn # NoSearchInput
    /\ "without" \notin sOut.ran
    /\ \E emb \in {"ok", "raise"}, pine \in PineconeOutcomes({sIn.matches}) :
           sOut' = [sOut EXCEPT
                      !.without = RunSearch(cfg, sIn.without, sIn.threshold, emb, pine),
                      !.ran = @ \cup {"without"}]
    /\ UNCHANGED <<cfg, askVars, sIn, discVars>>

InitSearch ==
    /\ cfg \in SearchConfigs
    /\ AskIdle
    /\ \E t \in Thresholds, qp \in QueryPairs, scores \in ScoreLists :
           sIn = [threshold |-> t, with |-> qp.with, without |-> qp.without,
                  matches |-> MatchesOfScores(scores)]
    /\ sOut = NoSearchOutput
    /\ DiscIdle

NextSearch ==
    \/ SearchWithKeyword
    \/ SearchWithoutKeyword

SpecSearch == InitSearch /\ [][NextSearch]_vars

----------------------------------------------------------------------------
(* Discovery requests against a store that already holds a history *)

\* Questions sent to the discovery endpoint
DiscoveryQuestions == {QPlain}

HistoryTexts == {HReady, HEvaluating, HInterested, HPlain}

\* One exchange more than the context holds, each with its own texts
MixedHistory ==
    [i \in 1..(MaxHist + 1) |->
        [session_id |-> CallerSession,
         user_message |-> <<HPlain, HInterested, HEvaluating>>[(i % 3) + 1],
         bot_response |-> IF i % 2 = 0 THEN TJsonResponse ELSE TGenerated]]

\* What the store holds for the caller's session when the behaviour starts:
\* n earlier exchanges
Histories ==
    {<<>>} \cup
    { [i \in 1..n |-> [session_id |-> CallerSession, user_message |-> t,
                       bot_response |-> TJsonResponse]] :
          n \in {1, MaxHist - 1, MaxHist}, t \in HistoryTexts } \cup
    { [i \in 1..n |-> [session_id |-> CallerSession, user_message |-> t,
                       bot_response |-> TJsonResponse]] :
          n \in {MinProfileRows, MaxHist + 1}, t \in {HManager, HTie} } \cup
    { MixedHistory }

DiscoveryConfigs == { c \in Configs : c.db = "none" }

InitDisc ==
    /\ cfg \in DiscoveryConfigs
    /\ pc = "idle"
    /\ request = NoRequest
    /\ response = <<>>
    /\ sources = <<>>
    /\ search_method = "fallback"
    /\ semantic_results = NoResults
    /\ index_scores = <<>>
    /\ kb_results = NoKbResults
    /\ rungLog = <<>>
    /\ collab = {}
    /\ saveLog = <<>>
    /\ chat_messages \in Histories
    /\ reply = NoReply
    /\ SearchIdle
    /\ DiscIdle

NextDisc ==
    \/ \E q \in DiscoveryQuestions, sid \in SessionIds : DiscStart(q, sid)
    \/ DiscContext
    \/ DiscGenerate
    \/ DiscSave
    \/ DiscReturn

SpecDisc == InitDisc /\ [][NextDisc]_vars

----------------------------------------------------------------------------
(* Successive discovery requests *)

SessionHistories ==
    {<<>>} \cup
    { [i \in 1..n |-> [session_id |-> CallerSession, user_message |-> t,
                       bot_response |-> TJsonResponse]] :
          n \in {MaxHist - 1, MaxHist}, t \in {HPlain, HReady} }

SessionConfigs == { c \in DiscoveryConfigs : c.openai = "ok" }

InitSession ==
    /\ cfg \in SessionConfigs
    /\ pc = "idle"
    /\ request = NoRequest
    /\ response = <<>>
    /\ sources = <<>>
    /\ search_method = "fallback"
    /\ semantic_results = NoResults
    /\ index_scores = <<>>
    /\ kb_results = NoKbResults
    /\ rungLog = <<>>
    /\ collab = {}
    /\ saveLog = <<>>
    /\ chat_messages \in SessionHistories
    /\ reply = NoReply
    /\ SearchIdle
    /\ DiscIdle

NextSession ==
    \/ \E q \in DiscoveryQuestions, sid \in SessionIds : DiscStart(q, sid)
    \/ \E q \in DiscoveryQuestions, sid \in SessionIds : DiscAgain(q, sid)
    \/ DiscContext
    \/ SessionGenerate
    \/ DiscSave
    \/ DiscReturn

SpecSession == InitSession /\ [][NextSession]_vars

----------------------------------------------------------------------------
(* Both endpoints of one server: the behaviour is one ask_faq request or one
   discovery request, against any configuration and a store that is empty or
   already holds the caller's session *)

EndpointHistories ==
    {<<>>} \cup
    { [i \in 1..MaxHist |-> [session_id |-> CallerSession, user_message |-> t,
                             bot_response |-> TJsonResponse]] : t \in {HReady} }

InitEndpoints ==
    /\ cfg \in Configs
    /\ pc = "idle"
    /\ request = NoRequest
    /\ response = <<>>
    /\ sources = <<>>
    /\ search_method = "fallback"
    /\ semantic_results = NoResults
    /\ index_scores = <<>>
    /\ kb_results = NoKbResults
    /\ rungLog = <<>>
    /\ collab = {}
    /\ saveLog = <<>>
    /\ chat_messages \in EndpointHistories
    /\ reply = NoReply
    /\ SearchIdle
    /\ DiscIdle

NextEndpoints ==
    \/ \E req \in AskRequests : dpc = "idle" /\ AskStart(req.question, req.session_id)
    \/ SemanticSearchCall
    \/ SemanticUse
    \/ KeywordRung
    \/ GenerationRung
    \/ SaveRung
    \/ AskReturn
    \/ \E q \in DiscoveryQuestions, sid \in SessionIds : pc = "idle" /\ DiscStart(q, sid)
    \/ DiscContext
    \/ DiscGenerate
    \/ DiscSave
    \/ DiscReturn

SpecEndpoints == InitEndpoints /\ [][NextEndpoints]_vars

----------------------------------------------------------------------------
(* The same question asked again: successive ask_faq requests with the
   question of the first, against an index and knowledge-base tables that
   return what they returned to the first *)

TwiceConfigs ==
    { c \in Configs : c.sem = "ok" /\ c.pinecone /\ c.emb /\ ~c.supabase
                      /\ c.db = "ok" }

InitTwice ==
    /\ cfg \in TwiceConfigs
    /\ AskIdle
    /\ SearchIdle
    /\ DiscIdle

\* The next request, sent after the previous one was answered; reply keeps
\* the previous answer until this one returns
AskAgain ==
    /\ pc = "done"
    /\ calls < MaxCalls - 1
    /\ calls' = calls + 1
    /\ pc' = "semantic"
    /\ response' = <<>>
    /\ sources' = <<>>
    /\ search_method' = "fallback"
    /\ UNCHANGED <<cfg, request, semantic_results, index_scores, kb_results, rungLog,
                   collab, saveLog, chat_messages, reply, searchVars, dpc, dreq,
                   d_session_id, d_conversation_context, d_user_profile, context_read,
                   d_knowledge_context, discovery_result, trace, dreply, fullSeen>>

\* A request after the first
Repeated == calls > 0

\* Lines 123-133 in a repeated request: the index holds what it held and the
\* embedding of the same question is the same, so semantic_search returns
\* what it returned
SemanticSearchSame ==
    /\ pc = "semantic"
    /\ Repeated
    /\ SemanticAvailable(cfg)
    /\ pc' = "semantic_use"
    /\ rungLog' = Append(rungLog, "semantic_search")
    /\ UNCHANGED <<cfg, request, response, sources, search_method, semantic_results,
                   index_scores, kb_results, collab, saveLog, chat_messages, reply,
                   searchVars, discVars>>

NextTwice ==
    \/ \E req \in AskRequests : AskStart(req.question, req.session_id)
    \/ AskAgain
    \/ ~Repeated /\ SemanticSearchCall
    \/ SemanticSearchSame
    \/ SemanticUse
    \/ /\ KeywordRung
       /\ (Repeated /\ \E i \in 1..Len(rungLog) : rungLog[i] = "search_knowledge_base")
              => kb_results' = kb_results
    \/ GenerationRung
    \/ SaveRung
    \/ AskReturn

SpecTwice == InitTwice /\ [][NextTwice]_vars

----------------------------------------------------------------------------
(* Two requests in flight at once: an ask_faq request and a discovery request
   whose steps interleave in every order, each with its own local variables,
   both using the one store *)

ConcurrentConfigs ==
    { c \in Configs : c.sem = "ok" /\ c.openai = "ok" /\ c.db = "ok"
                      /\ ~c.pinecone /\ c.supabase }

InitConcurrent ==
    /\ cfg \in ConcurrentConfigs
    /\ pc = "idle"
    /\ request = NoRequest
    /\ response = <<>>
    /\ sources = <<>>
    /\ search_method = "fallback"
    /\ semantic_results = NoResults
    /\ index_scores = <<>>
    /\ kb_results = NoKbResults
    /\ rungLog = <<>>
    /\ collab = {}
    /\ saveLog = <<>>
    /\ chat_messages \in EndpointHistories \ {<<>>}
    /\ reply = NoReply
    /\ SearchIdle
    /\ DiscIdle

NextConcurrent ==
    \/ \E q \in DiscoveryQuestions, sid \in SessionIds : AskStart(q, sid)
    \/ SemanticSearchCall
    \/ SemanticUse
    \/ KeywordRung
    \/ GenerationRung
    \/ SaveRung
    \/ AskReturn
    \/ \E q \in DiscoveryQuestions, sid \in SessionIds : DiscStart(q, sid)
    \/ DiscContext
    \/ SessionGenerate
    \/ DiscSave
    \/ DiscReturn

SpecConcurrent == InitConcurrent /\ [][NextConcurrent]_vars

----------------------------------------------------------------------------
(* The enhancement of a candidate answer, on its own: lines 157-177 of ask_faq
   applied to a candidate and to what the completion client returns *)

Candidates == {TUsable, TText, TChunk, TLongContent}

EnhanceInputs ==
    { [candidate |-> t, out |-> o] :
          t \in Candidates,
          o \in Completions(TLongContent) \cup Completions(TUsable) }

InitEnhance ==
    /\ cfg \in Configs
    /\ AskIdle
    /\ sIn \in EnhanceInputs
    /\ sOut = NoSearchOutput
    /\ DiscIdle

Enhance ==
    /\ sOut = NoSearchOutput
    /\ sOut' = [ran |-> {"enhance"},
                result |-> EnhancedAnswer(cfg, sIn.candidate, sIn.out)]
    /\ UNCHANGED <<cfg, askVars, sIn, discVars>>

NextEnhance == Enhance

SpecEnhance == InitEnhance /\ [][NextEnhance]_vars

----------------------------------------------------------------------------
(* The generator on its own: generate_discovery_response_with_actions applied
   to the arguments of two calls *)

GeneratorConfigs ==
    { c \in DiscoveryConfigs :
          c.sem = "ok" /\ c.openai # "none" /\ c.pinecone /\ c.emb /\ c.supabase }

\* conversation_context: None, or what get_conversation_context returns for a
\* session of 4 or of 5 stored exchanges
GeneratorContexts ==
    {NoContext} \cup
    { [given |-> TRUE,
       messages |-> GetConversationContext(
                        [supabase |-> TRUE],
                        [i \in 1..n |-> [session_id |-> CallerSession,
                                         user_message |-> HPlain,
                                         bot_response |-> TJsonResponse]],
                        CallerSession, "ok")] :
          n \in {MaxHist - 1, MaxHist} }

\* user_profile: None, the default dictionary, or an analysis
GeneratorProfiles ==
    {NoProfile, DefaultProfile("new_visitor")} \cup
    { [given |-> TRUE, profile |-> p, needs |-> <<>>, readiness |-> r,
       counted |-> TRUE, conversation_count |-> MaxHist,
       engagement_score |-> MaxHist * 10] :
          p \in {"general"}, r \in {"ready", "evaluating", "interested"} } \cup
    { [given |-> TRUE, profile |-> "manager", needs |-> <<>>,
       readiness |-> "evaluating", counted |-> TRUE,
       conversation_count |-> MaxHist + 1, engagement_score |-> (MaxHist + 1) * 10] }

\* knowledge_context: empty, or built from one match of the index
GeneratorKnowledge ==
    { <<>>,
      KnowledgeHeader \o KnowledgeEntries(
          <<SearchResult([supabase |-> FALSE], QPlain,
                         KnowledgeMatch("v1", 70, TKnowledge))>>, 1) \o <<"\n">> }

\* The completion call raises, or returns text that is not JSON
GeneratorCompletions ==
    { [kind |-> "raise", content |-> <<>>] }
        \cup { [kind |-> "content", content |-> t] :
                   t \in {TDerek, TPlainText, TBlankCompletion} }

GeneratorInputs ==
    [ conversation_context : GeneratorContexts, user_profile : GeneratorProfiles,
      knowledge_context : GeneratorKnowledge, out : GeneratorCompletions ]

GeneratorRun(input) ==
    GenerateDiscoveryResponseWithActions(cfg, input.conversation_context,
        input.user_profile, input.knowledge_context, input.out)

InitGenerator ==
    /\ cfg \in GeneratorConfigs
    /\ AskIdle
    /\ sIn \in [first : GeneratorInputs, second : GeneratorInputs]
    /\ sOut = NoSearchOutput
    /\ DiscIdle

GenerateBoth ==
    /\ sOut = NoSearchOutput
    /\ sOut' = [ran |-> {"generate"},
                first |-> GeneratorRun(sIn.first),
                second |-> GeneratorRun(sIn.second)]
    /\ UNCHANGED <<cfg, askVars, sIn, discVars>>

NextGenerator == GenerateBoth

SpecGenerator == InitGenerator /\ [][NextGenerator]_vars

----------------------------------------------------------------------------
(* Properties of ask_faq *)

RungRank(name) ==
    CASE name \in {"semantic_search", "process_question", "guided_generation"} -> 1
      [] name = "search_knowledge_base" -> 2
      [] name = "direct_generation" -> 3
      [] OTHER -> 4

Called(name) == \E i \in 1..Len(rungLog) : rungLog[i] = name

\* The call is made by this step
CalledNow(name) == ~Called(name) /\ Called(name)'

\* C1: ask_faq calls its rungs in the order semantic search, keyword search,
\* direct generation; the keyword search is called only when the answer text
\* is empty after the semantic rung, and direct generation only when it is
\* still empty after the keyword rung.
C1_RungOrder ==
    [][ /\ \A i \in 1..Len(rungLog'), j \in 1..Len(rungLog') :
               i < j => RungRank(rungLog'[i]) <= RungRank(rungLog'[j])
        /\ CalledNow("search_knowledge_base")
               => (pc = "keyword" /\ ~Truthy(response))
        /\ CalledNow("direct_generation")
               => (pc = "generate" /\ ~Truthy(response)) ]_vars

\* The semantic rung answered and the keyword search, though available, was
\* not called
C1_Witness ==
    /\ pc = "done"
    /\ cfg.db = "ok"
    /\ reply.search_method = "semantic_content"
    /\ Called("semantic_search")
    /\ ~Called("search_knowledge_base")
    /\ ~Called("direct_generation")

\* Semantic search returned no matches and the keyword search no entries
NothingFound ==
    /\ semantic_results.results = <<>>
    /\ kb_results.faq_entries = <<>>
    /\ kb_results.documents = <<>>

GenerationLabels == {"openai_direct", "no_response_available", "service_error"}

\* C2 as stated: when semantic search returns no matches and the keyword search
\* nothing, ask_faq reaches the generation rung and returns 'openai_direct',
\* 'no_response_available' or 'service_error', and no other label.
C2_OnlyGenerationLabels ==
    (pc = "done" /\ NothingFound)
        => (Called("direct_generation") /\ reply.search_method \in GenerationLabels)

\* C2 amended: in that situation, with a completion service ask_faq calls the
\* generation rung and returns 'openai_direct' with the generated text when
\* the text is not blank, 'no_response_available' when it is blank and
\* 'service_error' when the call raised; without a completion service it
\* returns 'no_services_available' and calls nothing.
C2_GenerationOrNoServices ==
    (pc = "done" /\ NothingFound)
        => IF OpenAIAvailable(cfg)
           THEN /\ Called("direct_generation")
                /\ reply.search_method \in GenerationLabels
                /\ reply.search_method = "openai_direct"
                       => /\ Strip(reply.answer) # <<>>
                          /\ reply.answer \notin {ApologyNoResponse, ApologyServiceError}
                          /\ reply.sources # <<>>
                          /\ reply.sources[Len(reply.sources)].type = "openai_generated"
                /\ reply.search_method = "no_response_available"
                       => reply.answer = ApologyNoResponse
                /\ reply.search_method = "service_error"
                       => reply.answer = ApologyServiceError
           ELSE /\ ~Called("direct_generation")
                /\ reply.search_method = "no_services_available"
                /\ reply.answer = ApologyNoServices

\* Both searches ran and found nothing, and generation produced the answer
C2_Witness ==
    /\ pc = "done"
    /\ NothingFound
    /\ semantic_results.success
    /\ cfg.db = "ok"
    /\ Called("search_knowledge_base")
    /\ reply.search_method = "openai_direct"

\* C3: a question that is empty or only whitespace is rejected before any
\* collaborator is called, with a reply that differs from a generation failure.
C3_BlankRejected ==
    (pc = "done" /\ Strip(request.question) = <<>>)
        => /\ collab = {}
           /\ rungLog = <<>>
           /\ ~reply.success
           /\ reply.search_method \notin GenerationLabels

SemanticLabels == {"semantic_content", "semantic_content_ai_enhanced", "semantic_guided_ai"}

\* C5 as stated: for 'How much does HuddleUp cost?' and an index holding one
\* match of score 0.15, the semantic rung accepts the match and the keyword
\* rung is not reached.
C5_LowScoreAccepted ==
    (pc = "done" /\ request.question = QCost /\ semantic_results.success
         /\ index_scores = <<15>>)
        => /\ Len(semantic_results.results) = 1
           /\ ~Called("search_knowledge_base")

\* C5 amended: for 'How much does HuddleUp cost?' ask_faq's search filters at
\* 0.4 (0.6 relaxed by 0.2): a single match of score 0.15 is dropped, the
\* semantic rung yields nothing and the keyword search is called when the
\* database service exists; a single match of score 0.45 is kept, and when it
\* carries usable content the semantic rung answers and the keyword search is
\* not called.
C5_RelaxedTo40 ==
    (pc = "done" /\ request.question = QCost /\ semantic_results.success)
        => /\ index_scores = <<15>>
               => /\ semantic_results.results = <<>>
                  /\ reply.search_method \notin SemanticLabels
                  /\ DatabaseAvailable(cfg) => Called("search_knowledge_base")
           /\ index_scores = <<45>>
               => /\ Len(semantic_results.results) = 1
                  /\ semantic_results.results[1].similarity = 45
                  /\ ResponseContent(semantic_results.results[1]) # None
                         => /\ reply.search_method \in
                                   {"semantic_content", "semantic_content_ai_enhanced"}
                            /\ ~Called("search_knowledge_base")

\* The pricing question answered from a match of score 0.45
C5_Witness ==
    /\ pc = "done"
    /\ request.question = QCost
    /\ index_scores = <<45>>
    /\ cfg.db = "ok"
    /\ reply.search_method = "semantic_content"
    /\ ~Called("search_knowledge_base")

\* C10 as stated: every ask_faq call that returns an answer has called
\* save_chat_with_embedding before returning.
C10_AlwaysSaved ==
    pc = "done" => Called("save_chat_with_embedding")

\* C10 amended: every ask_faq call that returns while the semantic search
\* service exists has called save_chat_with_embedding once, before returning,
\* with the question, the answer text, the source tags and the strategy label
\* it returns, whichever rung produced the answer; without that service it
\* returns without saving anything.
C10_SavedWhenServiceExists ==
    (pc \in {"return", "done"})
        => IF SemanticAvailable(cfg)
           THEN /\ Len(saveLog) = 1
                /\ rungLog[Len(rungLog)] = "save_chat_with_embedding"
                /\ saveLog[1].user_message = request.question
                /\ saveLog[1].bot_response = response
                /\ saveLog[1].sources = [sources |-> sources, method |-> search_method]
                /\ pc = "done"
                       => /\ reply.answer = saveLog[1].bot_response
                          /\ reply.sources = saveLog[1].sources.sources
                          /\ reply.search_method = saveLog[1].sources.method
           ELSE /\ saveLog = <<>>
                /\ chat_messages = <<>>
                /\ ~Called("save_chat_with_embedding")

\* An apology was returned and its row is in the table
C10_Witness ==
    /\ pc = "done"
    /\ reply.search_method = "service_error"
    /\ Len(saveLog) = 1
    /\ Len(chat_messages) = 1
    /\ chat_messages[1].bot_response = ApologyServiceError

----------------------------------------------------------------------------
(* Properties of semantic_search *)

BothSearchesFiltered ==
    /\ sOut.ran = {"with", "without"}
    /\ sOut.with.adjusted_threshold # -1
    /\ sOut.without.adjusted_threshold # -1

CountAtLeast(scores, t) == Cardinality({i \in 1..Len(scores) : scores[i] >= t})

----------------------------------------------------------------------------
(* Properties of discovery_conversation *)

CatalogTypes == {"calendar", "solution_preview", "process_analysis", "research", "questions"}

\* The list holds each of the five catalog types once
FullCatalog(actions) ==
    /\ Len(actions) = 5
    /\ { actions[i].type : i \in 1..Len(actions) } = CatalogTypes

\* The generator ran to one of its three returns after the completion call
GeneratorPaths == {"parsed", "parse_failure", "exception"}

\* C6: at a query count of at least 5 the action list returned by the
\* discovery conversation holds all five catalog types, none repeated, with
\* 'calendar' first when readiness is 'ready', on the parsed-JSON path, the
\* parse-failure path and the exception path.
C6_FullCatalogFromFive ==
    (dpc = "done" /\ dreply.success /\ trace.path \in GeneratorPaths
         /\ trace.query_count >= FullEngagementCount)
        => /\ FullCatalog(dreply.actions)
           /\ d_user_profile.readiness = "ready" => dreply.actions[1].type = "calendar"

\* The knowledge texts of the index, with what the parse-failure path shows of
\* each: its stripped lines joined by spaces
KnowledgeShown ==
    { [content |-> TKnowledge, shown |-> TKnowledge],
      [content |-> TKnowledgeLines, shown |-> TKnowledgeJoined] }

\* The action list of the stage computed by the call
StageActions(actions) ==
    IF trace.engagement_level = "full" THEN FullCatalog(actions)
    ELSE actions = InitialActions

\* C7 as stated: when the completion text is not valid JSON the discovery
\* conversation returns exactly that text, trimmed, with the default action
\* list of the stage, and reports no error.
C7_RawTextReturned ==
    (dpc = "done" /\ trace.path = "parse_failure")
        => /\ dreply.success
           /\ dreply.response = trace.raw
           /\ StageActions(dreply.actions)

\* The completion text mentions scheduling and knowledge_context has a
\* "Result 1" entry
KnowledgeReplaces ==
    /\ d_knowledge_context # <<>>
    /\ Contains(d_knowledge_context, KwResult1)
    /\ \/ Contains(Lower(trace.raw), KwDerek)
       \/ Contains(Lower(trace.raw), KwSchedule)

\* C7 amended: when the completion text is not valid JSON the discovery
\* conversation reports no error and returns the default action list of the
\* stage (two actions below 5 queries, the five catalog actions from 5) with
\* the trimmed text as response, except when the text mentions 'derek' or
\* 'schedule' and knowledge_context has a first result: then the response is
\* that result's content, its lines joined by spaces, followed by '...'.
C7_RawTextOrKnowledge ==
    (dpc = "done" /\ trace.path = "parse_failure")
        => /\ dreply.success
           /\ StageActions(dreply.actions)
           /\ IF KnowledgeReplaces
              THEN \E k \in KnowledgeShown :
                       /\ Contains(d_knowledge_context, Strip(k.content))
                       /\ dreply.response = k.shown \o Ellipsis
              ELSE dreply.response = trace.raw

\* A text about scheduling was replaced by the two-line knowledge content
C7_Witness ==
    /\ dpc = "done"
    /\ trace.path = "parse_failure"
    /\ trace.raw = Strip(TDerek)
    /\ trace.engagement_level = "full"
    /\ dreply.response = TKnowledgeJoined \o Ellipsis

\* C8: once a call has computed stage 'full' for a session, no later call for
\* that session computes 'initial', in any sequence of requests, saves and
\* collaborator failures.  (fullSeen holds the current session only when this
\* call or an earlier one computed 'full'.)
C8_StageMonotonic ==
    (dpc \in {"save", "return", "done"} /\ trace.path \in GeneratorPaths
         /\ d_session_id \in fullSeen)
        => trace.engagement_level = "full"

----------------------------------------------------------------------------
(* Properties of the stored history *)

\* How often the exchange (question, answer) occurs in a conversation context
Occurrences(context, question, answer) ==
    Cardinality({ i \in 1..(Len(context) - 1) :
                      /\ context[i] = [role |-> "user", content |-> question]
                      /\ context[i + 1] = [role |-> "assistant", content |-> answer] })

\* C9: after ask_faq has persisted an exchange handled under the caller's
\* session id, the next context retrieval for that session id includes the
\* exchange exactly once.
C9_AskRoundTrip ==
    (pc = "done" /\ request.session_id = CallerSession /\ Len(chat_messages) = 1)
        => Occurrences(GetConversationContext(cfg, chat_messages, request.session_id,
                                              "ok"),
                       request.question, reply.answer) = 1


----------------------------------------------------------------------------
(* Properties of both endpoints *)

\* The persistence step of a request ran and stored nothing
AskSaveFailed ==
    /\ saveLog # <<>>
    /\ cfg.supabase
    /\ chat_messages \in EndpointHistories

DiscSaveFailed ==
    /\ SemanticAvailable(cfg)
    /\ cfg.supabase
    /\ chat_messages \in EndpointHistories

\* C11: a failure of the persistence step (the store write or the question
\* embedding raising) never changes what the caller receives.  The save step
\* of ask_faq leaves the answer, the sources and the strategy label as they
\* were and goes on to the return, which sends exactly these with success
\* true; the save step of the discovery endpoint leaves the generator's result
\* as it was, and the return sends its response and actions: whatever the save
\* did to the store.
C11_PersistenceInvisible ==
    [][ /\ (pc = "save" =>
               /\ pc' = "return"
               /\ response' = response
               /\ sources' = sources
               /\ search_method' = search_method)
        /\ (pc = "return" =>
               reply' = [answer |-> response, success |-> TRUE, sources |-> sources,
                         search_method |-> search_method])
        /\ (dpc = "save" =>
               /\ dpc' = "return"
               /\ discovery_result' = discovery_result)
        /\ (dpc = "return" /\ ValidDiscoveryResponse(discovery_result) =>
               dreply' = [response |-> discovery_result.response,
                          actions |-> discovery_result.actions, success |-> TRUE])
      ]_vars

\* An ask_faq request whose save stored nothing was answered from the semantic rung
C11_Witness ==
    /\ pc = "done"
    /\ AskSaveFailed
    /\ reply.success
    /\ reply.search_method = "semantic_content"
    /\ reply.answer = saveLog[1].bot_response

\* A discovery request whose save stored nothing was answered by the generator
C11_DiscoveryWitness ==
    /\ dpc = "done"
    /\ DiscSaveFailed
    /\ dreply.success
    /\ dreply.response = discovery_result.response
    /\ trace.path = "parsed"


\* No collaborator can answer: no semantic search service or no vector index,
\* no relational store behind the database service, no completion client
NoCollaborator(c) ==
    /\ ~SemanticAvailable(c) \/ ~c.pinecone
    /\ c.db # "ok"
    /\ c.openai # "ok"

ApologyOf(label) ==
    IF label = "no_services_available" THEN ApologyNoServices
    ELSE IF label = "service_error" THEN ApologyServiceError
    ELSE ApologyNoResponse

ApologyLabels == {"no_services_available", "service_error", "no_response_available"}

\* C12: when every collaborator is unavailable or fails, ask_faq still returns
\* a fixed apology text with success true, and unavailability never yields
\* success false.  Every reply has success true; when no collaborator can
\* answer the label is 'no_services_available' (no completion service) or
\* 'service_error' (a service without a client); and whenever both searches
\* found nothing and generation gave no text, the answer is the fixed apology
\* of the label returned.
C12_ApologyWithSuccess ==
    pc = "done" =>
        /\ reply.success
        /\ NoCollaborator(cfg) =>
               reply.search_method =
                   (IF OpenAIAvailable(cfg) THEN "service_error" ELSE "no_services_available")
        /\ (NothingFound /\ reply.search_method # "openai_direct") =>
               /\ reply.search_method \in ApologyLabels
               /\ reply.answer = ApologyOf(reply.search_method)
               /\ reply.sources = <<>>

\* Every service object exists and none has a client behind it
C12_Witness ==
    /\ pc = "done"
    /\ NoCollaborator(cfg)
    /\ cfg.sem = "ok" /\ cfg.db = "no_client" /\ cfg.openai = "no_client"
    /\ Called("semantic_search") /\ Called("search_knowledge_base")
    /\ Called("direct_generation")
    /\ reply.success
    /\ reply.answer = ApologyServiceError


\* C13: every call of ask_faq and of the discovery endpoint returns a
\* non-empty text (answer / response), whatever the collaborators did and
\* whatever the completion client returned.
C13_NonEmptyText ==
    /\ pc = "done" => reply.answer \notin {<<>>, None}
    /\ dpc = "done" => dreply.response \notin {<<>>, None}

\* The part of C13 that holds: ask_faq never returns an empty answer
C13_AskNonEmpty == pc = "done" => reply.answer \notin {<<>>, None}


----------------------------------------------------------------------------
(* Properties of analyze_user_profile *)

\* The profile of the request is the one analyze_user_profile returned for
\* the rows the store holds: between the context step and the save
ProfileAnalysed == dpc = "generate" /\ d_user_profile.given

\* C14: for a session with fewer than 2 stored exchanges, and whenever the
\* store is unavailable, analyze_user_profile returns a default profile label
\* ('new_visitor' or 'unknown'), an empty needs list and readiness 'discovery'.
C14_DefaultProfile ==
    (ProfileAnalysed
        /\ (Len(SessionRows(chat_messages, d_session_id)) < MinProfileRows \/ ~cfg.supabase))
    => /\ d_user_profile.profile \in {"new_visitor", "unknown"}
       /\ ~cfg.supabase => d_user_profile.profile = "unknown"
       /\ d_user_profile.needs = <<>>
       /\ d_user_profile.readiness = "discovery"

\* One stored exchange full of readiness keywords, read from an available store
C14_Witness ==
    /\ ProfileAnalysed
    /\ cfg.supabase /\ cfg.emb
    /\ Len(SessionRows(chat_messages, d_session_id)) = 1
    /\ chat_messages[1].user_message = HReady
    /\ d_user_profile.profile = "new_visitor"
    /\ d_user_profile.readiness = "discovery"


\* The text analyze_user_profile scores: the user messages of the session,
\* joined by spaces, in lower case
CombinedText ==
    LET data == SessionRows(chat_messages, d_session_id)
    IN  Lower(JoinWith([i \in 1..Len(data) |-> data[i].user_message], <<" ">>))

\* label has the highest hit count of the table, and a higher one than every
\* label defined before it
WinsTable(indicators, label) ==
    \E i \in 1..Len(indicators) :
        /\ indicators[i].label = label
        /\ \A j \in 1..Len(indicators) :
               KeywordScore(indicators[j].keywords, CombinedText)
                   <= KeywordScore(indicators[i].keywords, CombinedText)
        /\ \A j \in 1..(i - 1) :
               KeywordScore(indicators[j].keywords, CombinedText)
                   < KeywordScore(indicators[i].keywords, CombinedText)

NoHit(indicators) ==
    \A j \in 1..Len(indicators) : KeywordScore(indicators[j].keywords, CombinedText) = 0

\* The history of the scenario: 6 user messages with 'team', 'manage', 'staff'
ManagerScenario ==
    /\ Len(SessionRows(chat_messages, d_session_id)) = 6
    /\ \A i \in 1..Len(chat_messages) : chat_messages[i].user_message = HManager

\* C15 as stated: the profile label and the readiness label of an analysed
\* history are each the label with the highest keyword hit count in their
\* table, equal counts being resolved in favour of the label defined first;
\* 6 user messages containing 'team', 'manage' and 'staff' give 'manager'.
C15_HighestCountWins ==
    (ProfileAnalysed /\ d_user_profile.counted)
    => /\ WinsTable(ProfileIndicators, d_user_profile.profile)
       /\ WinsTable(ReadinessIndicators, d_user_profile.readiness)
       /\ ManagerScenario => d_user_profile.profile = "manager"

\* C15 amended: the same when some label of the table has a hit; when no
\* keyword of the table occurs in the history the profile label is 'general'
\* and the readiness label 'discovery', which are in neither table.
C15_HighestCountOrDefault ==
    (ProfileAnalysed /\ d_user_profile.counted)
    => /\ IF NoHit(ProfileIndicators)
          THEN d_user_profile.profile = "general"
          ELSE WinsTable(ProfileIndicators, d_user_profile.profile)
       /\ IF NoHit(ReadinessIndicators)
          THEN d_user_profile.readiness = "discovery"
          ELSE WinsTable(ReadinessIndicators, d_user_profile.readiness)
       /\ ManagerScenario => d_user_profile.profile = "manager"

\* Equal counts in both tables: 'manager' before 'hr', 'interested' before 'ready'
C15_Witness ==
    /\ ProfileAnalysed /\ d_user_profile.counted
    /\ chat_messages[1].user_message = HTie
    /\ KeywordScore(ProfileIndicators[2].keywords, CombinedText) = 1
    /\ KeywordScore(ProfileIndicators[3].keywords, CombinedText) = 1
    /\ d_user_profile.profile = "manager"
    /\ d_user_profile.readiness = "interested"

\* The scenario of 6 messages is analysed as 'manager'
C15_ScenarioWitness ==
    /\ ProfileAnalysed /\ d_user_profile.counted
    /\ ManagerScenario
    /\ d_user_profile.profile = "manager"


----------------------------------------------------------------------------
(* Properties of repeated requests *)

\* The repeated request is about to return: reply is the answer to the
\* previous request, search_method the label of this one
SecondReturn == Repeated /\ pc = "return"

ContentLabels == {"semantic_content", "semantic_content_ai_enhanced"}

\* C16: two ask_faq calls with the same question text and no intervening
\* change in the stored knowledge return the same search_method (and so select
\* the same rung), even when the completion client's text differs between the
\* two calls.
C16_SameLabel == SecondReturn => search_method = reply.search_method

\* C16 amended: the two calls return the same search_method when no
\* completion client is configured; with one, both answer from the content of
\* the best match or neither does, and the labels differ only as the two
\* completions differ: 'semantic_content' against
\* 'semantic_content_ai_enhanced', or labels of the guided, keyword and
\* generation rungs against each other.
C16_SameLabelUpToCompletion ==
    SecondReturn =>
        /\ cfg.openai # "ok" => search_method = reply.search_method
        /\ search_method \in ContentLabels <=> reply.search_method \in ContentLabels
        /\ search_method = "no_services_available"
               <=> reply.search_method = "no_services_available"

\* The first call enhanced the content of the best match, the second returned it as it is
C16_Witness ==
    /\ SecondReturn
    /\ cfg.openai = "ok"
    /\ reply.search_method = "semantic_content_ai_enhanced"
    /\ search_method = "semantic_content"
    /\ response = semantic_results.results[1].content


----------------------------------------------------------------------------
(* Properties of concurrent requests *)

\* The variables local to the ask_faq request, and to the discovery request
AskLocals ==
    <<request, response, sources, search_method, semantic_results, kb_results, reply>>

DiscLocals ==
    <<dreq, d_session_id, d_conversation_context, d_user_profile, d_knowledge_context,
      discovery_result, dreply>>

\* Both requests have started and neither has returned
BothInFlight == pc \notin {"idle", "done"} /\ dpc \notin {"idle", "done"}

\* The rows the store held for the caller's session before the requests
InitialTexts == {HReady, TJsonResponse}

----------------------------------------------------------------------------
(* Properties of the enhancement *)

Enhanced == sOut # NoSearchOutput /\ sOut.ran = {"enhance"}

\* The completion client was called and returned a text of at least 50
\* characters, once stripped, that differs from the candidate by more than
\* letter case
NonTrivialDifferent(c, candidate, out) ==
    /\ c.openai = "ok"
    /\ out # Raise
    /\ Len(Strip(out)) >= MinEnhancedLength
    /\ Lower(Strip(out)) # Lower(candidate)

\* The same with any difference from the candidate, letter case included
NonTrivialOtherText(c, candidate, out) ==
    /\ c.openai = "ok"
    /\ out # Raise
    /\ Len(Strip(out)) >= MinEnhancedLength
    /\ Strip(out) # candidate

\* C18 as stated: when the semantic rung has a candidate answer, the label is
\* 'semantic_content_ai_enhanced' exactly when the enhancer returned a
\* non-trivial text different from the candidate, and then the answer is the
\* enhanced text; in every other case (enhancer unavailable, raising,
\* returning a trivial or identical text) the answer is the unmodified
\* candidate with label 'semantic_content'.
C18_EnhancedIffOtherText ==
    Enhanced =>
        /\ sOut.result.search_method \in ContentLabels
        /\ sOut.result.search_method = "semantic_content_ai_enhanced"
               <=> NonTrivialOtherText(cfg, sIn.candidate, sIn.out)
        /\ sOut.result.search_method = "semantic_content_ai_enhanced"
               => sOut.result.response = Strip(sIn.out)
        /\ sOut.result.search_method = "semantic_content"
               => sOut.result.response = sIn.candidate

\* C18 amended: the label is 'semantic_content_ai_enhanced' exactly when the
\* completion client returned a text that, once stripped, has at least 50
\* characters and differs from the candidate by more than letter case; then
\* the answer is that stripped text, and in every other case the answer is
\* the unmodified candidate with label 'semantic_content'.
C18_EnhancedExactly ==
    Enhanced =>
        /\ sOut.result.search_method \in ContentLabels
        /\ sOut.result.search_method = "semantic_content_ai_enhanced"
               <=> NonTrivialDifferent(cfg, sIn.candidate, sIn.out)
        /\ sOut.result.search_method = "semantic_content_ai_enhanced"
               => sOut.result.response = Strip(sIn.out)
        /\ sOut.result.search_method = "semantic_content"
               => sOut.result.response = sIn.candidate

\* A text of exactly 50 characters replaces the candidate
C18_Witness ==
    /\ Enhanced
    /\ sIn.out = Fill("e", MinEnhancedLength)
    /\ sOut.result.search_method = "semantic_content_ai_enhanced"
    /\ sOut.result.response = sIn.out

\* The candidate in lower case, 54 characters long, counts as identical
C18_CaseWitness ==
    /\ Enhanced
    /\ cfg.openai = "ok"
    /\ sIn.candidate = TLongContent
    /\ sIn.out = Lower(TLongContent)
    /\ sOut.result = [response |-> TLongContent, search_method |-> "semantic_content"]


----------------------------------------------------------------------------
(* Properties of the semantic rung *)

\* The semantic rung has examined the matches semantic_search returned
MatchesExamined ==
    /\ pc \in {"keyword", "generate", "save", "return", "done"}
    /\ semantic_results.success
    /\ semantic_results.results # <<>>

BestMatch == semantic_results.results[1]

\* The fields of the best match in the order content, text, answer,
\* metadata.content, metadata.text, metadata.answer; the results of
\* semantic_search have no answer of their own
FieldsInOrder ==
    << BestMatch.content, BestMatch.text, None, BestMatch.metadata.content,
       BestMatch.metadata.text, BestMatch.metadata.answer >>

Qualifies(field) == field \notin {None, <<>>} /\ Len(Strip(field)) > 10

\* C19: the semantic rung takes its candidate answer from the best match by
\* examining content, text, answer, metadata.content, metadata.text,
\* metadata.answer in that order and choosing the first whose trimmed length
\* is strictly greater than 10: a field of trimmed length 10 or less is never
\* chosen, and a later field is never chosen when an earlier one qualifies.
C19_FirstQualifyingField ==
    MatchesExamined =>
        IF \E i \in 1..6 : Qualifies(FieldsInOrder[i])
        THEN LET k == CHOOSE i \in 1..6 :
                          /\ Qualifies(FieldsInOrder[i])
                          /\ \A j \in 1..(i - 1) : ~Qualifies(FieldsInOrder[j])
             IN  /\ ResponseContent(BestMatch) = Strip(FieldsInOrder[k])
                 /\ search_method \in ContentLabels
                 /\ sources[1].type = "knowledge_base_semantic"
                 /\ search_method = "semantic_content" => response = Strip(FieldsInOrder[k])
        ELSE /\ ResponseContent(BestMatch) = None
             /\ search_method \notin ContentLabels

\* The content has 10 characters once trimmed, text is empty, and the answer
\* comes from metadata.answer, the last field
C19_Witness ==
    /\ pc = "done"
    /\ MatchesExamined
    /\ Len(Strip(BestMatch.content)) = 10
    /\ BestMatch.content # Strip(BestMatch.content)
    /\ ~Qualifies(BestMatch.text)
    /\ reply.search_method = "semantic_content"
    /\ reply.answer = BestMatch.metadata.answer


\* The best match has no field that qualifies as usable content
NoUsableField == MatchesExamined /\ \A i \in 1..6 : ~Qualifies(FieldsInOrder[i])

\* The similarities of the top (at most 3) matches, as (sum, number)
TopMean ==
    LET r == semantic_results.results
        n == IF Len(r) < 3 THEN Len(r) ELSE 3
    IN  [sum |-> (IF n >= 1 THEN r[1].similarity ELSE 0)
                   + (IF n >= 2 THEN r[2].similarity ELSE 0)
                   + (IF n >= 3 THEN r[3].similarity ELSE 0),
         over |-> n]

GuidedTag ==
    [type |-> "semantic_guided", matches_found |-> Len(semantic_results.results),
     avg_similarity |-> TopMean]

\* What every reading of C20 requires once the completion returned text
GuidedAnswer ==
    search_method = "semantic_guided_ai"
        => /\ cfg.openai = "ok"
           /\ Truthy(response)
           /\ sources = <<GuidedTag>>
           /\ ~Called("search_knowledge_base")
           /\ ~Called("direct_generation")

\* C20 as stated: when semantic search returns at least one match but no
\* field of the best match qualifies, ask_faq asks the completion client for a
\* free-form answer; if it returns text the answer carries 'semantic_guided_ai'
\* and a tag with the match count and the mean similarity of the top (at most
\* 3) matches; if the call raises or returns nothing, resolution continues
\* with the keyword rung.
C20_GuidedAlwaysAsked ==
    NoUsableField =>
        /\ Called("guided_generation")
        /\ GuidedAnswer
        /\ (search_method # "semantic_guided_ai" /\ pc # "keyword"
                /\ DatabaseAvailable(cfg))
               => Called("search_knowledge_base")

\* C20 amended: the completion client is asked when a completion service is
\* configured, and only then; when the call gave no text, or was not made, the
\* keyword rung follows if a database service is configured, and the
\* generation rung otherwise.
C20_GuidedWhenConfigured ==
    NoUsableField =>
        /\ Called("guided_generation") <=> OpenAIAvailable(cfg)
        /\ GuidedAnswer
        /\ (search_method # "semantic_guided_ai" /\ pc # "keyword")
               => /\ Called("search_knowledge_base") <=> DatabaseAvailable(cfg)
                  /\ (pc # "generate" /\ kb_results = NoKbResults)
                         => search_method \in {"openai_direct", "no_response_available",
                                               "service_error", "no_services_available"}

\* Four matches were returned and the tag averages the first three
C20_Witness ==
    /\ pc = "done"
    /\ NoUsableField
    /\ Len(semantic_results.results) = 4
    /\ reply.search_method = "semantic_guided_ai"
    /\ reply.sources[1].matches_found = 4
    /\ reply.sources[1].avg_similarity = [sum |-> 160, over |-> 3]

\* The guided call raised and the keyword rung answered
C20_ContinuedWitness ==
    /\ pc = "done"
    /\ NoUsableField
    /\ cfg.openai = "no_client"
    /\ Called("guided_generation")
    /\ reply.search_method = "traditional_faq"

----------------------------------------------------------------------------
(* Properties of the search results *)

\* The matches of the last search whose metadata carried neither content nor
\* text
Backfilled ==
    { i \in 1..Len(semantic_results.results) :
        /\ ~Truthy(semantic_results.results[i].metadata.content)
        /\ ~Truthy(semantic_results.results[i].metadata.text) }

\* C21: every match returned by semantic_search has a non-empty content or a
\* non-empty text; a match whose metadata carries neither has a content that
\* was read from the store, built as a fallback, or is the placeholder, and
\* the text of a match is the text of its metadata.
C21_ContentPresent ==
    \A i \in 1..Len(semantic_results.results) :
        LET r == semantic_results.results[i]
        IN  /\ Truthy(r.content) \/ Truthy(r.text)
            /\ r.text = r.metadata.text
            /\ i \in Backfilled =>
                   \/ r.content = FinalPlaceholder
                   \/ r.content = FallbackContent(request.question,
                                                  r.metadata.document_id)
                   \/ cfg.supabase /\ r.content = TChunk

\* A search returned a match whose row in the store has an empty content, and
\* the match carries the placeholder
C21_Witness ==
    /\ pc = "semantic_use"
    /\ cfg.supabase
    /\ \E i \in Backfilled :
           semantic_results.results[i].content = FinalPlaceholder

\* A search returned a match without content that was read from the store
C21_StoreWitness ==
    /\ pc = "semantic_use"
    /\ \E i \in Backfilled : semantic_results.results[i].content = TChunk

----------------------------------------------------------------------------
(* Properties of the action lists *)

InitialTypes == {"questions", "solution_preview"}

TypesOf(actions) == { actions[i].type : i \in 1..Len(actions) }

\* The generator returned while the query count was below 5
InitialStageReturn ==
    /\ dpc = "done"
    /\ trace.path \in GeneratorPaths
    /\ trace.query_count < FullEngagementCount

\* C22: while the query count of the session is below 5, every action list the
\* discovery conversation returns holds only actions of the types 'questions'
\* and 'solution_preview', on the parsed-JSON path, the parse-failure path and
\* the exception path.
C22_InitialTwoTypes ==
    InitialStageReturn => TypesOf(dreply.actions) \subseteq InitialTypes

\* Off the parsed-JSON path the two types are all that is offered below 5
C22_InitialTwoTypesUnparsed ==
    (InitialStageReturn /\ trace.path # "parsed")
        => TypesOf(dreply.actions) \subseteq InitialTypes

\* The generator built the action list of the full stage from the readiness
\* label (lines 784-805)
StageDerivedFull ==
    /\ dpc = "done"
    /\ dreply.success
    /\ trace.path = "parse_failure"
    /\ trace.engagement_level = "full"
    /\ d_user_profile.given

\* C23: in full stage the stage-derived action list is ordered by readiness:
\* 'ready' puts calendar first, 'evaluating' puts process_analysis first,
\* 'interested' puts research first, 'discovery' keeps the default catalog
\* order; every ordering is a permutation of the same five actions.
C23_ReadinessFirst ==
    StageDerivedFull =>
        /\ Len(dreply.actions) = 5
        /\ { dreply.actions[i] : i \in 1..5 } = { FullActionsFallback[i] : i \in 1..5 }
        /\ d_user_profile.readiness = "ready" => dreply.actions[1].type = "calendar"
        /\ d_user_profile.readiness = "evaluating"
               => dreply.actions[1].type = "process_analysis"
        /\ d_user_profile.readiness = "interested"
               => dreply.actions[1].type = "research"
        /\ d_user_profile.readiness = "discovery"
               => dreply.actions = FullActionsFallback

\* The order of types the code gives each readiness label
TypeOrder(readiness) ==
    IF readiness = "evaluating"
    THEN <<"solution_preview", "process_analysis", "research", "calendar", "questions">>
    ELSE IF readiness = "interested"
    THEN <<"solution_preview", "research", "process_analysis", "calendar", "questions">>
    ELSE <<"calendar", "solution_preview", "process_analysis", "research", "questions">>

\* The orders that are returned: a permutation of the five actions, with
\* solution_preview first for 'evaluating' and 'interested'
C23_OrderReturned ==
    StageDerivedFull =>
        /\ Len(dreply.actions) = 5
        /\ { dreply.actions[i] : i \in 1..5 } = { FullActionsFallback[i] : i \in 1..5 }
        /\ [i \in 1..5 |-> dreply.actions[i].type] = TypeOrder(d_user_profile.readiness)

\* A full-stage parse failure for an 'evaluating' caller
C23_EvaluatingReached ==
    StageDerivedFull /\ d_user_profile.readiness = "evaluating"

\* The generator returned from the parsed-JSON path
ParsedReturn == dpc \in {"save", "return", "done"} /\ trace.path = "parsed"

\* C24: when the completion text parses as a JSON object, a missing 'response'
\* is replaced by the fixed generic string; a missing 'actions' is replaced by
\* the default set of the stage (five actions from a query count of 5, two
\* below); a list of at most 2 entries at a query count of at least 5 is
\* replaced by the five-action catalog; in every other case the list of the
\* completion is returned unchanged.
C24_ParsedValidation ==
    ParsedReturn =>
        LET doc  == JsonLoads(trace.raw)
            full == trace.query_count >= 5
        IN  /\ doc.kind = "object"
            /\ discovery_result.response =
                   IF doc.has_response THEN doc.response ELSE DefaultResponse
            /\ ~doc.has_actions =>
                   /\ full => /\ discovery_result.actions = FullActionsParsed
                              /\ FullCatalog(discovery_result.actions)
                   /\ ~full => /\ discovery_result.actions = InitialActions
                               /\ Len(discovery_result.actions) = 2
            /\ (doc.has_actions /\ full /\ Len(doc.actions) <= 2)
                   => discovery_result.actions = FullActionsParsed
            /\ (doc.has_actions /\ ~(full /\ Len(doc.actions) <= 2))
                   => discovery_result.actions = doc.actions

\* At a query count of 5 a list of one action was replaced by the catalog
C24_Witness ==
    /\ ParsedReturn
    /\ trace.query_count = 5
    /\ trace.model_actions.given
    /\ Len(trace.model_actions.list) = 1
    /\ discovery_result.actions = FullActionsParsed

\* Below 5 a list of one action was returned as the completion wrote it
C24_UnchangedWitness ==
    /\ ParsedReturn
    /\ trace.query_count < 5
    /\ trace.model_actions.given
    /\ Len(trace.model_actions.list) = 1
    /\ discovery_result.actions = trace.model_actions.list

\* An object without 'response' got the generic string
C24_ResponseWitness ==
    /\ ParsedReturn
    /\ ~JsonLoads(trace.raw).has_response
    /\ discovery_result.response = DefaultResponse

----------------------------------------------------------------------------
(* Properties of the generator's fallbacks *)

GeneratorRan == sOut # NoSearchOutput /\ sOut.ran = {"generate"}

\* Both calls ended in the JSONDecodeError handler
BothParseFailures ==
    /\ GeneratorRan
    /\ sOut.first.path = "parse_failure"
    /\ sOut.second.path = "parse_failure"

\* C25: on the parse-failure path the returned action list is a function of
\* the query count and the readiness label only: two calls with the same query
\* count and the same readiness (or both without a profile) return identical
\* action lists, whatever the malformed text, the role label, the knowledge
\* context or the conversation say.
C25_ActionsFromStageAndReadiness ==
    (/\ BothParseFailures
     /\ sOut.first.query_count = sOut.second.query_count
     /\ sIn.first.user_profile.readiness = sIn.second.user_profile.readiness)
        => sOut.first.actions = sOut.second.actions

\* Two calls at query count 5 for 'evaluating' callers that differ in the
\* malformed text, the role label and the response text returned
C25_Witness ==
    /\ BothParseFailures
    /\ sOut.first.query_count = 5
    /\ sOut.second.query_count = 5
    /\ sIn.first.user_profile.readiness = "evaluating"
    /\ sIn.second.user_profile.readiness = "evaluating"
    /\ sIn.first.user_profile.profile # sIn.second.user_profile.profile
    /\ sIn.first.out # sIn.second.out
    /\ sOut.first.response # sOut.second.response
    /\ sOut.first.actions = sOut.second.actions
    /\ sOut.first.actions # FullActionsFallback

\* The user turns of the context the endpoint passed to the generator
UserTurns ==
    Cardinality({ i \in 1..Len(d_conversation_context.messages) :
                      d_conversation_context.messages[i].role = "user" })

\* The catalog of the stage on the exception path
ExceptionStageActions ==
    IF UserTurns >= 5 THEN FullActionsException ELSE InitialActions

\* The request ended without a completion: the call raised (or its result
\* could not be used), the service has no client, or there is no service
CompletionFailed ==
    dpc = "done" /\ trace.path \in {"exception", "no_client", "unavailable"}

C26_NoClientWitness ==
    /\ CompletionFailed
    /\ trace.path = "no_client"
    /\ UserTurns = 5
    /\ dreply.actions = <<>>

----------------------------------------------------------------------------
(* Properties of the labels and tags of ask_faq *)

KeywordLabels == {"traditional_faq", "traditional_document"}

ApologyMethodLabels == {"no_response_available", "service_error", "no_services_available"}

RungLabels ==
    SemanticLabels \cup KeywordLabels \cup {"openai_direct"} \cup ApologyMethodLabels

\* The labels the rung at position p assigns
LabelsOfRung(p) ==
    IF p = "semantic_use" THEN SemanticLabels
    ELSE IF p = "keyword" THEN KeywordLabels
    ELSE IF p = "generate" THEN {"openai_direct"} \cup ApologyMethodLabels
    ELSE {}

\* ask_faq returned through its return statement
AskReturned == pc = "done" /\ reply.success

\* C27: on every return of ask_faq outside the top-level exception handler the
\* search_method is one of the nine rung labels, never 'fallback', and names
\* the rung that last assigned the returned answer text: a step that changes
\* the answer text sets a label of its own rung, and the label stays while a
\* non-empty answer text stays.
C27_LabelNamesRung ==
    /\ [](AskReturned =>
              /\ reply.search_method \in RungLabels
              /\ reply.search_method # "fallback"
              /\ reply.search_method = search_method
              /\ reply.answer = response)
    /\ [][response' # response => search_method' \in LabelsOfRung(pc)]_vars
    /\ [][(response' = response /\ Truthy(response))
              => search_method' = search_method]_vars

\* A keyword hit with an empty answer set 'traditional_faq'; the generation
\* rung then assigned the text and its label
C27_Witness ==
    /\ AskReturned
    /\ kb_results.faq_entries # <<>>
    /\ ~Truthy(kb_results.faq_entries[1].answer)
    /\ reply.search_method = "openai_direct"
    /\ reply.answer = TGenerated

\* The rung that attaches a source tag of this type
RungOfTag(type) ==
    IF type \in {"knowledge_base_semantic", "semantic_guided"} THEN "semantic"
    ELSE IF type \in {"faq_traditional", "document_traditional"} THEN "keyword"
    ELSE "generation"

\* The rung a search_method names
RungOfLabel(label) ==
    IF label \in SemanticLabels THEN "semantic"
    ELSE IF label \in KeywordLabels THEN "keyword"
    ELSE "generation"

\* C28: every source tag in the list ask_faq returns was attached by the rung
\* the returned search_method names; a rung that yielded no answer text leaves
\* no tag in the returned sources.
C28_TagsOfNamedRung ==
    AskReturned =>
        \A i \in 1..Len(reply.sources) :
            RungOfTag(reply.sources[i].type) = RungOfLabel(reply.search_method)

\* When the keyword rung found no entry, the tags are those of the named rung
C28_TagsWithoutEmptyHit ==
    (AskReturned /\ kb_results = NoKbResults) =>
        \A i \in 1..Len(reply.sources) :
            RungOfTag(reply.sources[i].type) = RungOfLabel(reply.search_method)

----------------------------------------------------------------------------
(* Properties of the stored exchanges *)

\* The rows stored for the exchange of the discovery request being handled
ExchangeRows ==
    { i \in 1..Len(chat_messages) :
        /\ chat_messages[i].session_id = d_session_id
        /\ chat_messages[i].user_message = dreq.question }

\* C29: for every discovery request the response text stored for the exchange
\* equals the response text returned to the caller; the caller never receives
\* another text (such as the endpoint's fallback) after the save.
C29_StoredEqualsReturned ==
    dpc = "done" =>
        \A i \in ExchangeRows : chat_messages[i].bot_response = dreply.response

\* Whenever the endpoint reports success, what was stored is what it returned
C29_StoredEqualsReturnedOnSuccess ==
    (dpc = "done" /\ dreply.success) =>
        \A i \in ExchangeRows : chat_messages[i].bot_response = dreply.response

----------------------------------------------------------------------------
(* Properties of the query count *)

\* The generator has just returned, having computed a stage from a context
\* that was read from the store
StagedFromStore ==
    /\ dpc = "save"
    /\ trace.path \in GeneratorPaths
    /\ context_read = "ok"

\* The exchanges stored for the session when the request arrived
StoredExchanges == SessionRows(chat_messages, d_session_id)

C30_ProfileFailedWitness ==
    /\ StagedFromStore
    /\ ~d_user_profile.counted
    /\ trace.engagement_level = "full"

\* Four exchanges are stored: the stage is 'initial'
C30_InitialWitness ==
    /\ StagedFromStore
    /\ Len(StoredExchanges) = 4
    /\ trace.query_count = 4
    /\ trace.engagement_level = "initial"

====
